---- MODULE Spec2Model ----
(***************************************************************************)
(* CloudRift Terraform driver (src/driver/driver.py).                      *)
(*                                                                         *)
(* The driver is one synchronous process: main() loads the settings,       *)
(* resolves the repository paths and the shell, then runs a menu loop      *)
(* whose choices run the flows (_provision, _destroy) and the EC2          *)
(* operations (_restart_ec2, _show_connection_info, _stop_start_ec2).      *)
(* Every external call (bash, aws, ssh) is one step of the model whose     *)
(* result is chosen by the environment.                                    *)
(*                                                                         *)
(* Text values are sequences of one-character strings, so that strip() and *)
(* lower() are computed and not assumed.  Keys, file names and message     *)
(* tags are only ever compared, and are plain strings.                     *)
(*                                                                         *)
(* Spec is the whole driver.  SpecLoader, SpecTopology and SpecUpsert run  *)
(* one part of it (the reading of .env, the search for the scripts, the    *)
(* upsert on terraform.tfvars) over larger families of inputs.             *)
(***************************************************************************)
EXTENDS Integers, Sequences, FiniteSets, TLC

\* ------------------------------------------------------------------------
\* Text helpers (str.strip, str.lower)
\* ------------------------------------------------------------------------
Empty == << >>

IsSpace(c) == c \in {" ", "\t", "\n", "\r"}

RECURSIVE LStrip(_)
LStrip(s) == IF s = Empty THEN s
             ELSE IF IsSpace(Head(s)) THEN LStrip(Tail(s)) ELSE s

RECURSIVE RStrip(_)
RStrip(s) == IF s = Empty THEN s
             ELSE IF IsSpace(s[Len(s)]) THEN RStrip(SubSeq(s, 1, Len(s) - 1)) ELSE s

Strip(s) == RStrip(LStrip(s))

LowerChar(c) == CASE c = "Y" -> "y"
                  [] c = "E" -> "e"
                  [] c = "S" -> "s"
                  [] c = "N" -> "n"
                  [] c = "O" -> "o"
                  [] OTHER -> c

Lower(s) == [i \in 1..Len(s) |-> LowerChar(s[i])]

\* A dict with key k set to v (d[k] = v in Python).
Put(d, k, v) == [x \in (DOMAIN d) \cup {k} |-> IF x = k THEN v ELSE d[x]]

\* A dict without the keys ks (d.pop(k, None) for k in ks).
Without(d, ks) == [x \in (DOMAIN d) \ ks |-> d[x]]

EmptyDict == [x \in {} |-> Empty]

\* ------------------------------------------------------------------------
\* Settings (module globals, lines 19-39) and _apply_env
\* ------------------------------------------------------------------------
SettingNames == {"aws_region", "aws_access_token", "aws_secret_token",
                 "aws_session_token", "account_id", "owner", "ec2_dns",
                 "devops_repo_url", "backend_repo_url", "frontend_repo_url",
                 "git_username", "git_pat",
                 "smee_url", "smee_target", "smee_backend", "smee_frontend",
                 "smee_devops"}

\* The globals before .env is loaded: every one is the empty string.
InitialSettings == [n \in SettingNames |-> Empty]

\* The alias keys of each setting, in the order pick() tries them.
Aliases(n) ==
  CASE n = "aws_region"        -> <<"AWS_REGION", "aws_region">>
    [] n = "aws_access_token"  -> <<"AWS_ACCESS_TOKEN", "aws_access_token", "AWS_ACCESS", "aws_access">>
    [] n = "aws_secret_token"  -> <<"AWS_SECRET_TOKEN", "aws_secret_token", "AWS_SECRET", "aws_secret">>
    [] n = "aws_session_token" -> <<"AWS_SESSION_TOKEN", "aws_session_token">>
    [] n = "account_id"        -> <<"ACCOUNT_ID", "account_id">>
    [] n = "owner"             -> <<"OWNER", "owner">>
    [] n = "ec2_dns"           -> <<"ec2_dns">>
    [] n = "devops_repo_url"   -> <<"DEVOPS_REPO_URL", "devops_repo_url">>
    [] n = "backend_repo_url"  -> <<"BACKEND_REPO_URL", "backend_repo_url", "API_REPO_URL", "api_repo_url">>
    [] n = "frontend_repo_url" -> <<"FRONTEND_REPO_URL", "frontend_repo_url">>
    [] n = "git_username"      -> <<"GITHUB_USER", "GIT_USERNAME", "git_username">>
    [] n = "git_pat"           -> <<"GITHUB_PAT", "GIT_PAT", "git_pat">>
    [] n = "smee_url"          -> <<"SMEE_URL", "smee_url">>
    [] n = "smee_target"       -> <<"SMEE_TARGET", "smee_target">>
    [] n = "smee_backend"      -> <<"SMEE_BACKEND", "smee_backend">>
    [] n = "smee_frontend"     -> <<"SMEE_FRONTEND", "smee_frontend">>
    [] n = "smee_devops"       -> <<"SMEE_DEVOPS", "smee_devops">>

\* pick returning the last alias that is not blank.
RECURSIVE pick_last_alias(_, _)
pick_last_alias(data, names) ==
  IF names = << >> THEN Empty
  ELSE IF pick_last_alias(data, Tail(names)) # Empty
       THEN pick_last_alias(data, Tail(names))
       ELSE IF Head(names) \in DOMAIN data THEN Strip(data[Head(names)]) ELSE Empty

\* pick(*names): the stripped value of the first name whose value is not blank.
RECURSIVE pick(_, _)
pick(data, names) ==
  IF names = << >> THEN Empty
  ELSE IF Head(names) \in DOMAIN data /\ Strip(data[Head(names)]) # Empty
       THEN Strip(data[Head(names)])
       ELSE pick(data, Tail(names))

\* The mandatory settings with the key each is reported under, in the order
\* of the checks of lines 196-203.
Mandatory == << <<"aws_region", "AWS_REGION">>,
                <<"aws_access_token", "AWS_ACCESS_TOKEN">>,
                <<"aws_secret_token", "AWS_SECRET_TOKEN">>,
                <<"account_id", "ACCOUNT_ID">>,
                <<"owner", "OWNER">>,
                <<"devops_repo_url", "DEVOPS_REPO_URL">>,
                <<"backend_repo_url", "BACKEND_REPO_URL">>,
                <<"frontend_repo_url", "FRONTEND_REPO_URL">> >>

\* MissingKeys stopping at the first key that is missing.
RECURSIVE MissingKeysFirstOnly(_, _)
MissingKeysFirstOnly(values, checks) ==
  IF checks = << >> THEN << >>
  ELSE IF values[Head(checks)[1]] = Empty THEN <<Head(checks)[2]>>
  ELSE MissingKeysFirstOnly(values, Tail(checks))

RECURSIVE MissingKeys(_, _)
MissingKeys(values, checks) ==
  IF checks = << >> THEN << >>
  ELSE (IF values[Head(checks)[1]] = Empty THEN <<Head(checks)[2]>> ELSE << >>)
       \o MissingKeys(values, Tail(checks))

\* _apply_env: the globals it assigns and the keys its ValueError names
\* (missing = << >> when it returns normally).
apply_env(data) ==
  LET values == [n \in SettingNames |-> pick(data, Aliases(n))]
  IN  [settings |-> values, missing |-> MissingKeys(values, Mandatory)]

\* ------------------------------------------------------------------------
\* Reading .env (lines 104-160)
\* ------------------------------------------------------------------------
\* A line of .env is a sequence of tokens: a blank, a punctuation mark, or a
\* word (a run of letters, digits and underscores, or a part of one).
Quotes == {"\"", "'"}

Specials == {" ", "\t", "\n", "\r", "=", ":", "#"} \cup Quotes

Digits == {"0", "1", "2", "3", "4", "5", "6", "7", "8", "9"}

IsWord(t) == t \notin Specials

\* The number of word tokens a line starts with.
RECURSIVE WordRun(_)
WordRun(s) == IF s = Empty \/ ~IsWord(Head(s)) THEN 0 ELSE 1 + WordRun(Tail(s))

\* "".join(tokens).
RECURSIVE Join(_)
Join(s) == IF s = Empty THEN "" ELSE Head(s) \o Join(Tail(s))

Drop(s, n) == SubSeq(s, n + 1, Len(s))

\* The loop of _strip_inline_comment_preserving_quotes.
RECURSIVE ScanComment(_, _, _)
ScanComment(s, in_single, in_double) ==
  IF s = Empty THEN Empty
  ELSE LET ch == Head(s)
       IN  IF ch = "'" /\ ~in_double
           THEN <<ch>> \o ScanComment(Tail(s), ~in_single, in_double)
           ELSE IF ch = "\"" /\ ~in_single
           THEN <<ch>> \o ScanComment(Tail(s), in_single, ~in_double)
           ELSE IF ch = "#" /\ ~in_single /\ ~in_double
           THEN Empty
           ELSE <<ch>> \o ScanComment(Tail(s), in_single, in_double)

\* The scan cutting at the first '#' wherever it lies.
strip_inline_comment_ignoring_quotes(s) ==
  Strip(SubSeq(s, 1, (CHOOSE n \in 0..Len(s) :
                        /\ \A i \in 1..n : s[i] # "#"
                        /\ n < Len(s) => s[n + 1] = "#")))

strip_inline_comment_preserving_quotes(s) == Strip(ScanComment(s, FALSE, FALSE))

unquote(s) ==
  LET t == Strip(s)
  IN  IF Len(t) >= 2 /\ t[1] = t[Len(t)] /\ t[1] \in Quotes
      THEN SubSeq(t, 2, Len(t) - 1)
      ELSE t

\* The spellings of export that lower() maps to "export".
ExportSpellings == {"export", "EXPORT", "Export"}

NoMatch == [key |-> "", val |-> Empty, ok |-> FALSE]

\* py_like.match(line) on a stripped line: an identifier, ':', the word
\* str, '=' and a non-empty rest, with blanks allowed between them.
py_like(line) ==
  LET n  == WordRun(line)
      r1 == LStrip(Drop(line, n))
      r2 == IF r1 = Empty THEN Empty ELSE LStrip(Tail(r1))
      m  == WordRun(r2)
      r3 == LStrip(Drop(r2, m))
      r4 == IF r3 = Empty THEN Empty ELSE LStrip(Tail(r3))
  IN  IF /\ n >= 1 /\ Head(line) \notin Digits
         /\ r1 # Empty /\ Head(r1) = ":"
         /\ Join(SubSeq(r2, 1, m)) = "str"
         /\ r3 # Empty /\ Head(r3) = "="
         /\ r4 # Empty
      THEN [key |-> Join(SubSeq(line, 1, n)), val |-> Strip(r4), ok |-> TRUE]
      ELSE NoMatch

\* line.split("=", 1) with both halves stripped.
split_assignment(line) ==
  LET i == CHOOSE k \in 1..Len(line) : line[k] = "=" /\ \A j \in 1..(k - 1) : line[j] # "="
  IN  [key |-> Join(Strip(SubSeq(line, 1, i - 1))), val |-> Strip(Drop(line, i)), ok |-> TRUE]

\* Key and value of one stripped line, ok = FALSE when the line is skipped.
parse_line(line) ==
  IF py_like(line).ok THEN py_like(line)
  ELSE IF \E k \in 1..Len(line) : line[k] = "=" THEN split_assignment(line)
  ELSE NoMatch

\* The body of the loop over the lines: data after one raw line.
load_line(data, raw) ==
  LET l0   == Strip(raw)
      line == IF Len(l0) >= 2 /\ l0[1] \in ExportSpellings /\ l0[2] = " "
              THEN Strip(Drop(l0, 2)) ELSE l0
      kv   == parse_line(line)
  IN  IF l0 = Empty \/ Head(l0) = "#" \/ ~kv.ok THEN data
      ELSE Put(data, kv.key, unquote(strip_inline_comment_preserving_quotes(kv.val)))

\* _load_env_file on the lines of an existing file.
RECURSIVE LoadLines(_, _)
LoadLines(lines, data) ==
  IF lines = << >> THEN data ELSE LoadLines(Tail(lines), load_line(data, Head(lines)))

load_env_file(lines) == LoadLines(lines, EmptyDict)

\* ------------------------------------------------------------------------
\* Repository detection
\* ------------------------------------------------------------------------
SETUP_SH == "setup.sh"
DESTROY_SH == "destroy.sh"

\* range(20) of the upward walk.
MaxWalk == 20

\* _find_devops_repo_root_from_script_location.  Directories on the way up
\* are named by their depth below the filesystem root (0); git is the set
\* of depths holding a .git entry.  -1 stands for the RuntimeError.
RECURSIVE WalkUp(_, _, _)
WalkUp(cur, git, left) ==
  IF left = 0 THEN -1
  ELSE IF cur \in git THEN cur
  ELSE IF cur = 0 THEN -1
  ELSE WalkUp(cur - 1, git, left - 1)

find_devops_repo_root(loc) == WalkUp(loc.depth, loc.git, MaxWalk)

\* A path is the sequence of its segments below the repository root; the
\* last segment of a file path is the file name.
Parent(p) == SubSeq(p, 1, Len(p) - 1)

SegLower(seg) == CASE seg = ".GIT" -> ".git"
                   [] seg = "Node_Modules" -> "node_modules"
                   [] OTHER -> seg

\* valid(p) of _find_infra_dir.
valid(p) == \A i \in 1..Len(p) :
              SegLower(p[i]) \notin {".git", ".terraform", "node_modules"}

\* len(str(p)), counted from the repository root: every segment and the
\* separator in front of it.
RECURSIVE StrLen(_)
StrLen(p) == IF p = << >> THEN 0 ELSE Len(Head(p)) + 1 + StrLen(Tail(p))

RECURSIVE CommonPrefix(_, _)
CommonPrefix(a, b) ==
  IF a = << >> \/ b = << >> THEN 0
  ELSE IF Head(a) = Head(b) THEN 1 + CommonPrefix(Tail(a), Tail(b)) ELSE 0

path_distance(a, b) ==
  (Len(a) - CommonPrefix(a, b)) + (Len(b) - CommonPrefix(a, b))

\* rglob(name) filtered by valid().
Candidates(tree, name) == {p \in tree : p[Len(p)] = name /\ valid(p)}

\* _find_infra_dir: the triples (infra, setup_sh, destroy_sh) it can return
\* for a tree; the empty set when it raises FileNotFoundError.  sorted()[0]
\* and min() keep the first of several equal keys, and the order of rglob
\* and of a set of paths is not fixed by the tree, so every minimal element
\* is a possible result.
find_infra_dir(tree) ==
  LET setup_candidates   == Candidates(tree, SETUP_SH)
      destroy_candidates == Candidates(tree, DESTROY_SH)
      setup_dirs   == {Parent(p) : p \in setup_candidates}
      destroy_dirs == {Parent(p) : p \in destroy_candidates}
      common       == setup_dirs \cap destroy_dirs
  IN  IF setup_candidates = {} \/ destroy_candidates = {} THEN {}
      ELSE IF common # {}
      THEN {[infra_dir |-> d, setup_sh |-> d \o <<SETUP_SH>>, destroy_sh |-> d \o <<DESTROY_SH>>] :
              d \in {c \in common : \A e \in common : StrLen(c) <= StrLen(e)}}
      ELSE UNION {
             {[infra_dir |-> Parent(s), setup_sh |-> s, destroy_sh |-> d] :
                d \in {x \in destroy_candidates :
                         \A y \in destroy_candidates :
                            path_distance(Parent(s), Parent(x)) <= path_distance(Parent(s), Parent(y))}} :
             s \in {c \in setup_candidates : \A e \in setup_candidates : StrLen(c) <= StrLen(e)}}

\* ENV_DEV_REL / "credentials.auto.tfvars" and "terraform.tfvars".
DEV_CREDENTIALS == <<"environments", "dev", "credentials.auto.tfvars">>
DEV_TFVARS == <<"environments", "dev", "terraform.tfvars">>

\* _build_repo_paths.
build_repo_paths(root, r) ==
  [devops_repo_root |-> root,
   infra_dir |-> r.infra_dir,
   setup_sh |-> r.setup_sh,
   destroy_sh |-> r.destroy_sh,
   dev_credentials_tfvars |-> r.infra_dir \o DEV_CREDENTIALS,
   dev_terraform_tfvars |-> r.infra_dir \o DEV_TFVARS]

NoPaths == [devops_repo_root |-> -1]

\* ------------------------------------------------------------------------
\* tfvars writing
\* ------------------------------------------------------------------------
DQ == <<"\"">>

\* No upsert has been applied yet.
NoUpsert == [key |-> "", value |-> Empty]

\* terraform.tfvars does not exist.
NoTfvars == << <<"<no tfvars>">> >>

\* The line an upsert writes: KEY = "VALUE".
tfvar_line(key, value) == <<key, " ", "=", " ", "\"">> \o value \o <<"\"">>

\* What follows a value on a matching line: nothing, or a comment.
IsLineEnd(rest) == LStrip(rest) = Empty \/ Head(LStrip(rest)) = "#"

\* The line-anchored match: KEY, '=', a quoted value or a bare token, and
\* an optional trailing comment, with blanks allowed between them.
matches_key(line, key) ==
  LET r0 == LStrip(line)
      r1 == IF r0 = Empty THEN Empty ELSE LStrip(Tail(r0))
      r2 == IF r1 = Empty THEN Empty ELSE LStrip(Tail(r1))
  IN  /\ r0 # Empty /\ Head(r0) = key
      /\ r1 # Empty /\ Head(r1) = "="
      /\ r2 # Empty
      /\ IF Head(r2) = "\""
         THEN \E j \in 2..Len(r2) :
                /\ r2[j] = "\""
                /\ \A i \in 2..(j - 1) : r2[i] # "\""
                /\ IsLineEnd(Drop(r2, j))
         ELSE WordRun(r2) >= 1 /\ IsLineEnd(Drop(r2, WordRun(r2)))

\* Line endings normalised: a carriage return at the end of a line goes.
normalize_line(line) ==
  IF line # Empty /\ line[Len(line)] = "\r" THEN SubSeq(line, 1, Len(line) - 1) ELSE line

\* upsert appending the new line whether or not the key is there.
upsert_always_append(file, key, value) ==
  (IF file = NoTfvars THEN << >> ELSE [i \in 1..Len(file) |-> normalize_line(file[i])])
  \o <<tfvar_line(key, value)>>

\* The upsert on the General Variables File: the first line matching the
\* key is replaced in place, a key with no line is appended.
upsert(file, key, value) ==
  LET lines == IF file = NoTfvars THEN << >>
               ELSE [i \in 1..Len(file) |-> normalize_line(file[i])]
      hits  == {i \in 1..Len(lines) : matches_key(lines[i], key)}
  IN  IF hits = {} THEN Append(lines, tfvar_line(key, value))
      ELSE [i \in 1..Len(lines) |->
              IF i = (CHOOSE h \in hits : \A g \in hits : h <= g)
              THEN tfvar_line(key, value) ELSE lines[i]]

\* f'key = "{value}"'
TfLine(key, value) == <<key, " = ", DQ \o value \o DQ>>

\* _credentials_tfvars_content writing the session token line unconditionally.
credentials_tfvars_content_all(st) ==
  << TfLine("aws_access_key", st.aws_access_token),
     TfLine("aws_secret_key", st.aws_secret_token),
     TfLine("region", st.aws_region),
     TfLine("account_id", st.account_id),
     TfLine("owner", st.owner),
     TfLine("devops_repo_url", st.devops_repo_url),
     TfLine("backend_repo_url", st.backend_repo_url),
     TfLine("frontend_repo_url", st.frontend_repo_url),
     TfLine("git_username", st.git_username),
     TfLine("git_pat", st.git_pat),
     TfLine("aws_session_token", st.aws_session_token) >>
  \o (IF st.ec2_dns # Empty THEN <<TfLine("ec2_dns", st.ec2_dns)>> ELSE << >>)

\* _credentials_tfvars_content: the lines of the file, each ended by "\n".
credentials_tfvars_content(st) ==
  << TfLine("aws_access_key", st.aws_access_token),
     TfLine("aws_secret_key", st.aws_secret_token),
     TfLine("region", st.aws_region),
     TfLine("account_id", st.account_id),
     TfLine("owner", st.owner),
     TfLine("devops_repo_url", st.devops_repo_url),
     TfLine("backend_repo_url", st.backend_repo_url),
     TfLine("frontend_repo_url", st.frontend_repo_url),
     TfLine("git_username", st.git_username),
     TfLine("git_pat", st.git_pat) >>
  \o (IF st.aws_session_token # Empty
      THEN <<TfLine("aws_session_token", st.aws_session_token)>> ELSE << >>)
  \o (IF st.ec2_dns # Empty THEN <<TfLine("ec2_dns", st.ec2_dns)>> ELSE << >>)

NoFile == <<"<no file>">>

\* _write_credentials appending to the file it finds.
write_credentials_append(old, st) ==
  IF old = NoFile THEN credentials_tfvars_content(st)
  ELSE old \o credentials_tfvars_content(st)

\* _write_credentials: write_text replaces whatever the file held.
write_credentials(old, st) == credentials_tfvars_content(st)

\* ------------------------------------------------------------------------
\* Subprocess environment
\* ------------------------------------------------------------------------
ConflictingVars == {"AWS_ACCESS_KEY_ID", "AWS_SECRET_ACCESS_KEY", "AWS_SESSION_TOKEN",
                    "AWS_PROFILE", "AWS_DEFAULT_PROFILE"}

\* _clean_env_for_subprocess without the removal of the caller's variables.
clean_env_keeping_caller(st, environ) ==
  LET e1  == Put(environ, "TF_IN_AUTOMATION", <<"1">>)
      e2  == Put(e1, "TF_VAR_devops_repo_url", st.devops_repo_url)
      e3  == Put(e2, "TF_VAR_backend_repo_url", st.backend_repo_url)
      e4  == Put(e3, "TF_VAR_frontend_repo_url", st.frontend_repo_url)
      e5  == Put(e4, "TF_VAR_git_username", st.git_username)
      e6  == Put(e5, "TF_VAR_git_pat", st.git_pat)
      e7  == IF st.ec2_dns # Empty THEN Put(e6, "TF_VAR_ec2_dns", st.ec2_dns) ELSE e6
      e8  == Put(e7, "AWS_ACCESS_KEY_ID", st.aws_access_token)
      e9  == Put(e8, "SMEE_URL", st.smee_url)
      e10 == Put(e9, "SMEE_BACKEND", st.smee_backend)
      e11 == Put(e10, "SMEE_FRONTEND", st.smee_frontend)
      e12 == Put(e11, "SMEE_DEVOPS", st.smee_devops)
      e13 == Put(e12, "SMEE_TARGET", st.smee_target)
      e14 == Put(e13, "AWS_SECRET_ACCESS_KEY", st.aws_secret_token)
      e15 == IF st.aws_session_token # Empty
             THEN Put(e14, "AWS_SESSION_TOKEN", st.aws_session_token) ELSE e14
  IN  Put(e15, "AWS_DEFAULT_REGION", st.aws_region)

\* _clean_env_for_subprocess.
clean_env_for_subprocess(st, environ) ==
  LET e0  == Without(environ, ConflictingVars)
      e1  == Put(e0, "TF_IN_AUTOMATION", <<"1">>)
      e2  == Put(e1, "TF_VAR_devops_repo_url", st.devops_repo_url)
      e3  == Put(e2, "TF_VAR_backend_repo_url", st.backend_repo_url)
      e4  == Put(e3, "TF_VAR_frontend_repo_url", st.frontend_repo_url)
      e5  == Put(e4, "TF_VAR_git_username", st.git_username)
      e6  == Put(e5, "TF_VAR_git_pat", st.git_pat)
      e7  == IF st.ec2_dns # Empty THEN Put(e6, "TF_VAR_ec2_dns", st.ec2_dns) ELSE e6
      e8  == Put(e7, "AWS_ACCESS_KEY_ID", st.aws_access_token)
      e9  == Put(e8, "SMEE_URL", st.smee_url)
      e10 == Put(e9, "SMEE_BACKEND", st.smee_backend)
      e11 == Put(e10, "SMEE_FRONTEND", st.smee_frontend)
      e12 == Put(e11, "SMEE_DEVOPS", st.smee_devops)
      e13 == Put(e12, "SMEE_TARGET", st.smee_target)
      e14 == Put(e13, "AWS_SECRET_ACCESS_KEY", st.aws_secret_token)
      e15 == IF st.aws_session_token # Empty
             THEN Put(e14, "AWS_SESSION_TOKEN", st.aws_session_token) ELSE e14
  IN  Put(e15, "AWS_DEFAULT_REGION", st.aws_region)

\* Update leaving the keys that env already has as they are.
update_keeping_existing(env, extra) ==
  [x \in (DOMAIN env) \cup (DOMAIN extra) |-> IF x \in DOMAIN env THEN env[x] ELSE extra[x]]

\* env.update(extra_env)
Update(env, extra) ==
  [x \in (DOMAIN env) \cup (DOMAIN extra) |-> IF x \in DOMAIN extra THEN extra[x] ELSE env[x]]

\* ------------------------------------------------------------------------
\* Inputs of the model
\* ------------------------------------------------------------------------
\* Longest run of answers typed at one yes/no prompt.
MaxAnswers == 2

MandatoryData ==
  [k \in {"AWS_REGION", "AWS_ACCESS_TOKEN", "AWS_SECRET_TOKEN", "ACCOUNT_ID", "OWNER",
          "DEVOPS_REPO_URL", "BACKEND_REPO_URL", "FRONTEND_REPO_URL"} |->
     CASE k = "AWS_REGION" -> <<"r">>
       [] k = "AWS_ACCESS_TOKEN" -> <<"a">>
       [] k = "AWS_SECRET_TOKEN" -> <<"s">>
       [] k = "ACCOUNT_ID" -> <<"7">>
       [] k = "OWNER" -> <<" ", "o">>
       [] k = "DEVOPS_REPO_URL" -> <<"d">>
       [] k = "BACKEND_REPO_URL" -> <<"b">>
       [] k = "FRONTEND_REPO_URL" -> <<"f">>]

OptionalValue(k) == CASE k = "AWS_SESSION_TOKEN" -> <<"t">>
                      [] k = "ec2_dns" -> <<"e">>
                      [] k = "GITHUB_USER" -> <<"u">>
                      [] k = "GITHUB_PAT" -> <<"p">>

OptionalSets == {{}, {"AWS_SESSION_TOKEN"}, {"ec2_dns"},
                 {"AWS_SESSION_TOKEN", "ec2_dns", "GITHUB_USER", "GITHUB_PAT"}}

\* The dictionaries the .env files of the model hold.
EnvDatas ==
  {Update(MandatoryData, [k \in ks |-> OptionalValue(k)]) : ks \in OptionalSets}
  \cup {Without(MandatoryData, {"OWNER"}),
        Put(Put(MandatoryData, "AWS_REGION", <<" ">>), "ACCOUNT_ID", Empty)}

\* env_path.exists() is false.
NoEnvFile == << <<"<no file>">> >>

\* The keys of a .env file in the order they are written.
KeyOrder == <<"AWS_REGION", "AWS_ACCESS_TOKEN", "AWS_SECRET_TOKEN", "ACCOUNT_ID", "OWNER",
              "DEVOPS_REPO_URL", "BACKEND_REPO_URL", "FRONTEND_REPO_URL",
              "AWS_SESSION_TOKEN", "ec2_dns", "GITHUB_USER", "GITHUB_PAT">>

\* The line that sets key to value, the value in double quotes: annotated,
\* exported, or plain with a comment after it.
EnvLine(key, value) ==
  LET quoted == <<"\"">> \o value \o <<"\"">>
  IN  IF key \in {"AWS_REGION", "OWNER", "ec2_dns"}
      THEN <<key, ":", " ", "str", " ", "=", " ">> \o quoted
      ELSE IF key \in {"ACCOUNT_ID", "GITHUB_PAT"}
      THEN <<"export", " ", key, "=">> \o quoted
      ELSE <<key, "=">> \o quoted \o <<" ", "#", " ", "c">>

RECURSIVE RenderKeys(_, _)
RenderKeys(keys, data) ==
  IF keys = << >> THEN << >>
  ELSE (IF Head(keys) \in DOMAIN data
        THEN <<EnvLine(Head(keys), data[Head(keys)])>> ELSE << >>)
       \o RenderKeys(Tail(keys), data)

\* The .env files main() may find: none, or one holding a comment line, a
\* blank line and a line for each key of a dictionary.
EnvFiles ==
  {NoEnvFile} \cup {<< <<"#", " ", "c">>, <<" ">> >> \o RenderKeys(KeyOrder, d) : d \in EnvDatas}

\* Where driver.py lies: its depth and the depths that hold a .git entry.
StartLocs == {[depth |-> 3, git |-> {1}], [depth |-> 3, git |-> {}],
              [depth |-> 23, git |-> {1, 2}]}

\* The files below the repository root.
Trees == { {<<"infra", "setup.sh">>, <<"infra", "destroy.sh">>},
           {<<"up", "setup.sh">>, <<"down", "destroy.sh">>, <<".git", "x", "setup.sh">>},
           {<<"infra", "setup.sh">>, <<"node_modules", "destroy.sh">>} }

\* The environments the driver may be started in.
OsEnvirons ==
  LET conflicts == [k \in ConflictingVars |-> <<"c">>]
      autostart(v) == [k \in {"ENABLE_AUTOSTART"} |-> v]
  IN  {Update(Update([k \in {"HOME", "TF_IN_AUTOMATION"} |-> IF k = "HOME" THEN <<"h">> ELSE <<"0">>],
                     p[1]), p[2]) :
         p \in {<<EmptyDict, EmptyDict>>, <<conflicts, EmptyDict>>,
                <<EmptyDict, autostart(<<"1">>)>>, <<conflicts, autostart(<<" ", "1">>)>>}}

\* What credentials.auto.tfvars may hold before the driver runs.
OldFiles == {NoFile, <<TfLine("owner", <<"z">>), TfLine("stale", <<"1">>)>>}

\* ------------------------------------------------------------------------
\* State
\* ------------------------------------------------------------------------
VARIABLES
  pc,          \* where main() is
  settings,    \* the module globals assigned by _apply_env
  paths,       \* the RepoPaths of main(), NoPaths before they are built
  bash_path,   \* the shell of main(), "" before it is resolved
  tree,        \* the files below the repository root
  tfvarsFile,  \* the lines of environments/dev/terraform.tfvars
  upserted,    \* key and value of the last upsert on terraform.tfvars
  env_file,    \* the lines of .env, NoEnvFile when it does not exist
  env_data,    \* local of main(): the dictionary read from .env
  osEnviron,   \* os.environ
  credFile,    \* content of credentials.auto.tfvars
  cmds,        \* the subprocesses run since the last menu selection
  out,         \* the messages printed since the last menu selection
  err,         \* the exception that reached the menu loop, NoErr if none
  instance_id, \* local of _restart_ec2 and _stop_start_ec2
  endpoint,    \* local of _provision
  exit_code    \* return value of main(), -1 while it runs

vars == <<pc, settings, paths, bash_path, tree, tfvarsFile, upserted, env_file, env_data, osEnviron, credFile, cmds, out, err,
          instance_id, endpoint, exit_code>>

None == <<"<None>">>
NoErr == [type |-> "none", script |-> "", code |-> -1]

Falsy(x) == x = None \/ x = Empty

Init ==
  /\ pc = "load_env"
  /\ settings = InitialSettings
  /\ paths = NoPaths
  /\ bash_path = ""
  /\ tree \in Trees
  /\ tfvarsFile = NoTfvars
  /\ upserted = NoUpsert
  /\ env_file \in EnvFiles
  /\ env_data = EmptyDict
  /\ osEnviron \in OsEnvirons
  /\ credFile \in OldFiles
  /\ cmds = << >>
  /\ out = << >>
  /\ err = NoErr
  /\ instance_id = None
  /\ endpoint = None
  /\ exit_code = -1

\* return 1 / return 0 of main().
Return(code) ==
  /\ pc' = "exited"
  /\ exit_code' = code

\* ------------------------------------------------------------------------
\* Startup (main, lines 700-726)
\* ------------------------------------------------------------------------
\* _load_env_file and _apply_env; a missing .env or a missing key ends main.
LoadEnv ==
  /\ pc = "load_env"
  /\ IF env_file = NoEnvFile
     THEN /\ out' = Append(out, [msg |-> "ERROR loading .env", arg |-> <<"FileNotFoundError">>])
          /\ Return(1)
          /\ UNCHANGED <<settings, env_data>>
     ELSE LET r == apply_env(load_env_file(env_file))
          IN  /\ env_data' = load_env_file(env_file)
              /\ settings' = r.settings
              /\ IF r.missing # << >>
                 THEN /\ out' = Append(out, [msg |-> "ERROR loading .env", arg |-> r.missing])
                      /\ Return(1)
                 ELSE /\ out' = Append(out, [msg |-> "Loaded configuration", arg |-> << >>])
                      /\ pc' = "locate"
                      /\ UNCHANGED exit_code
  /\ UNCHANGED <<paths, bash_path, tree, tfvarsFile, upserted, env_file, osEnviron, credFile, cmds, err, instance_id,
                 endpoint>>

\* _find_devops_repo_root_from_script_location and _build_repo_paths.
Locate ==
  /\ pc = "locate"
  /\ \E loc \in StartLocs :
       LET root == find_devops_repo_root(loc)
       IN  IF root = -1 \/ find_infra_dir(tree) = {}
           THEN /\ out' = Append(out, [msg |-> "ERROR locating repo/infra", arg |-> << >>])
                /\ Return(1)
                /\ UNCHANGED paths
           ELSE /\ \E r \in find_infra_dir(tree) : paths' = build_repo_paths(root, r)
                /\ out' = Append(out, [msg |-> "Detected paths", arg |-> << >>])
                /\ pc' = "resolve_bash"
                /\ UNCHANGED exit_code
  /\ UNCHANGED <<settings, bash_path, tree, tfvarsFile, upserted, env_file, env_data, osEnviron, credFile, cmds, err, instance_id, endpoint>>

\* _resolve_bash_path.
resolve_bash_path(git_bash_exists, which_bash) ==
  IF git_bash_exists THEN "DEFAULT_GIT_BASH"
  ELSE IF which_bash THEN "which bash"
  ELSE ""

\* ResolveBash going on to the menu without an interpreter.
ResolveBashContinue ==
  /\ pc = "resolve_bash"
  /\ \E git_bash_exists \in BOOLEAN, which_bash \in BOOLEAN :
       /\ bash_path' = resolve_bash_path(git_bash_exists, which_bash)
       /\ out' = Append(out, [msg |-> "Using Git Bash", arg |-> << >>])
       /\ pc' = "menu"
       /\ UNCHANGED exit_code
  /\ UNCHANGED <<settings, paths, tree, tfvarsFile, upserted, env_file, env_data, osEnviron, credFile, cmds, err, instance_id, endpoint>>

ResolveBash ==
  /\ pc = "resolve_bash"
  /\ \E git_bash_exists \in BOOLEAN, which_bash \in BOOLEAN :
       LET b == resolve_bash_path(git_bash_exists, which_bash)
       IN  IF b = ""
           THEN /\ out' = Append(out, [msg |-> "ERROR locating Git Bash", arg |-> << >>])
                /\ Return(1)
                /\ UNCHANGED bash_path
           ELSE /\ bash_path' = b
                /\ out' = Append(out, [msg |-> "Using Git Bash", arg |-> << >>])
                /\ pc' = "menu"
                /\ UNCHANGED exit_code
  /\ UNCHANGED <<settings, paths, tree, tfvarsFile, upserted, env_file, env_data, osEnviron, credFile, cmds, err, instance_id, endpoint>>

\* ------------------------------------------------------------------------
\* Prompts and subprocess records
\* ------------------------------------------------------------------------
\* What the operator may type at a yes/no prompt.
AnswerInputs == {Empty, <<"y">>, <<"Y", "E", "S">>, <<" ", "n">>, <<"n", "o">>, <<"x">>}

AnswerRuns == UNION {[1..n -> AnswerInputs] : n \in 1..MaxAnswers}

\* _prompt_yes_no on the answers typed one after the other: "True", "False",
\* or "more" when every answer so far was rejected and it asks again.
RECURSIVE prompt_yes_no(_, _)
prompt_yes_no(answers, default_yes) ==
  IF answers = << >> THEN "more"
  ELSE LET val == Lower(Strip(Head(answers)))
       IN  IF val = Empty THEN (IF default_yes THEN "True" ELSE "False")
           ELSE IF val \in {<<"y">>, <<"y", "e", "s">>} THEN "True"
           ELSE IF val \in {<<"n">>, <<"n", "o">>} THEN "False"
           ELSE prompt_yes_no(Tail(answers), default_yes)

\* The answers of one complete call of _prompt_yes_no: the last one is the
\* first that is accepted.
CompleteRun(answers, default_yes) ==
  /\ prompt_yes_no(answers, default_yes) # "more"
  /\ prompt_yes_no(SubSeq(answers, 1, Len(answers) - 1), default_yes) = "more"

Msg(m, a) == [msg |-> m, arg |-> a]

Say(m) == Msg(m, << >>)

\* One subprocess.run: the program, what it was asked to do and on what,
\* the environment and input it was given, and how it ended.
Proc(tool, verb, target, env, stdin, status, rc) ==
  [tool |-> tool, verb |-> verb, target |-> target, env |-> env, stdin |-> stdin,
   status |-> status, rc |-> rc]

\* An aws CLI call that ran to its exit.
Aws(verb, target, rc) ==
  Proc("aws", verb, target, clean_env_for_subprocess(settings, osEnviron), None, "exited", rc)

ExitCodes == {0, 1, 2}

PreflightCodes == {0, 1}

\* ------------------------------------------------------------------------
\* Process runner and preflight
\* ------------------------------------------------------------------------
\* ("yes\n" * 200)
AutoConfirmLines == 200

\* stdin_payload that never feeds the confirmations.
stdin_payload_none(auto_confirm) == None

stdin_payload(auto_confirm) ==
  IF auto_confirm THEN [i \in 1..AutoConfirmLines |-> "yes"] ELSE None

Raised(type, script, code) == [type |-> type, script |-> script, code |-> code]

\* _run_bash_script without the check of the exit code.
run_bash_script_unchecked(script_name, cwd, auto_confirm, extra_env, rc) ==
  IF (cwd \o <<script_name>>) \notin tree
  THEN [procs |-> << >>, err |-> Raised("FileNotFoundError", script_name, -1)]
  ELSE [procs |-> <<Proc("bash", script_name, cwd,
                        Update(clean_env_for_subprocess(settings, osEnviron), extra_env),
                        stdin_payload(auto_confirm), "exited", rc)>>,
        err |-> NoErr]

\* _run_bash_script with the script ending with exit code rc: the process
\* it runs (none when the script is not found) and the exception it raises.
run_bash_script(script_name, cwd, auto_confirm, extra_env, rc) ==
  IF (cwd \o <<script_name>>) \notin tree
  THEN [procs |-> << >>, err |-> Raised("FileNotFoundError", script_name, -1)]
  ELSE [procs |-> <<Proc("bash", script_name, cwd,
                        Update(clean_env_for_subprocess(settings, osEnviron), extra_env),
                        stdin_payload(auto_confirm), "exited", rc)>>,
        err |-> IF rc # 0 THEN Raised("RuntimeError", script_name, rc) ELSE NoErr]

\* _preflight_aws_identity: check=False, the result is not looked at.
preflight_aws_identity(cwd, rc) ==
  Proc("bash", "aws sts get-caller-identity", cwd,
       clean_env_for_subprocess(settings, osEnviron), None, "exited", rc)

\* An exception leaves the operation for the handler of the menu loop
\* (lines 756-757), which prints it.
Raise(printed, e) ==
  /\ err' = e
  /\ out' = Append(printed, Msg("ERROR", <<e.type, e.script>>))
  /\ pc' = "error_prompt"

\* ------------------------------------------------------------------------
\* EC2 lookups
\* ------------------------------------------------------------------------
\* How one aws call can go: shutil.which finds no aws; the call cannot be
\* launched (subprocess.run raises); it exits with rc and prints stdout.
CliResult(which, status, rc, stdout) ==
  [which |-> which, status |-> status, rc |-> rc, stdout |-> stdout]

LookupOutcomes ==
  {CliResult(FALSE, "none", -1, Empty),
   CliResult(TRUE, "oserror", -1, Empty),
   CliResult(TRUE, "exited", 255, Empty),
   CliResult(TRUE, "exited", 255, <<"i-1", "\n">>),
   CliResult(TRUE, "exited", 0, Empty),
   CliResult(TRUE, "exited", 0, <<"\n">>),
   CliResult(TRUE, "exited", 0, <<"None", "\n">>),
   CliResult(TRUE, "exited", 0, <<"i-1", "\n">>),
   CliResult(TRUE, "exited", 0, <<"i-2", "\n">>)}

DescribeEnv == clean_env_for_subprocess(settings, osEnviron)

\* _get_instance_id: the value returned, with the processes run and the
\* messages printed on the way.
get_instance_id(o) ==
  LET run == Proc("aws", "describe-instances InstanceId", settings.owner, DescribeEnv,
                  None, o.status, o.rc)
  IN  IF ~o.which
      THEN [value |-> None, procs |-> << >>, printed |-> <<Say("'aws' command not found on PATH.")>>]
      ELSE IF o.status = "oserror"
      THEN [value |-> None, procs |-> <<run>>, printed |-> << >>]
      ELSE IF o.rc # 0 \/ Strip(o.stdout) = Empty
      THEN [value |-> None, procs |-> <<run>>, printed |-> << >>]
      ELSE IF Strip(o.stdout) = <<"None">>
      THEN [value |-> None, procs |-> <<run>>, printed |-> << >>]
      ELSE [value |-> Strip(o.stdout), procs |-> <<run>>, printed |-> << >>]

\* The two describe-instances calls of _get_connection_info.
QueryResult(rc, stdout) == [rc |-> rc, stdout |-> stdout]

Failed == QueryResult(255, Empty)

ConnOutcomes ==
  {[which |-> FALSE, status |-> "none", ip |-> QueryResult(-1, Empty), dns |-> QueryResult(-1, Empty)],
   [which |-> TRUE, status |-> "oserror", ip |-> QueryResult(-1, Empty), dns |-> QueryResult(-1, Empty)],
   [which |-> TRUE, status |-> "exited", ip |-> Failed, dns |-> Failed],
   [which |-> TRUE, status |-> "exited", ip |-> QueryResult(0, <<"None", "\n">>),
                                         dns |-> QueryResult(0, <<"None", "\n">>)],
   [which |-> TRUE, status |-> "exited", ip |-> QueryResult(0, <<"1.2.3.4", "\n">>),
                                         dns |-> QueryResult(0, <<"\n">>)],
   [which |-> TRUE, status |-> "exited", ip |-> QueryResult(0, <<"1.2.3.4", "\n">>),
                                         dns |-> QueryResult(0, <<"ec2.dns", "\n">>)],
   [which |-> TRUE, status |-> "exited", ip |-> Failed,
                                         dns |-> QueryResult(0, <<"ec2.dns", "\n">>)]}

NoneIfNone(x) == IF x = <<"None">> THEN None ELSE x

\* _get_connection_info: (ip, dns), with the processes run and the messages
\* printed on the way.
get_connection_info(o) ==
  LET owner_running == settings.owner \o <<"running">>
      ip_run  == Proc("aws", "describe-instances PublicIpAddress", owner_running, DescribeEnv,
                      None, o.status, o.ip.rc)
      dns_run == Proc("aws", "describe-instances PublicDnsName", owner_running, DescribeEnv,
                      None, o.status, o.dns.rc)
  IN  IF ~o.which
      THEN [ip |-> None, dns |-> None, procs |-> << >>,
            printed |-> <<Say("'aws' command not found on PATH. Cannot fetch connection info.")>>]
      ELSE IF o.status = "oserror"
      THEN [ip |-> None, dns |-> None, procs |-> <<ip_run>>,
            printed |-> <<Say("Error fetching connection info")>>]
      ELSE [ip  |-> NoneIfNone(IF o.ip.rc = 0 THEN Strip(o.ip.stdout) ELSE None),
            dns |-> NoneIfNone(IF o.dns.rc = 0 THEN Strip(o.dns.stdout) ELSE None),
            procs |-> <<ip_run, dns_run>>,
            printed |-> << >>]

\* endpoint = dns if dns else ip
Endpoint(ip, dns) == IF ~Falsy(dns) THEN dns ELSE ip

\* _print_connection_info: what it prints for the (ip, dns) it fetched.
print_connection_info(c) ==
  c.printed \o
  (IF Falsy(c.ip) /\ Falsy(c.dns)
   THEN <<Say("Could not fetch IP/DNS. Is the instance running?")>>
   ELSE <<Msg("DEPLOYMENT COMPLETE", <<c.ip, c.dns>>)>>
        \o (IF ~Falsy(Endpoint(c.ip, c.dns))
            THEN <<Msg("SSH Connection Command", <<Endpoint(c.ip, c.dns)>>)>> ELSE << >>))

\* _show_connection_info: what it prints for the (ip, dns) it fetched.
show_connection_info(c) ==
  c.printed \o
  (IF Falsy(c.ip) /\ Falsy(c.dns)
   THEN <<Say("No running instance found for owner")>>
   ELSE <<Msg("EC2 CONNECTION INFO", <<c.ip, c.dns>>)>>
        \o (IF ~Falsy(Endpoint(c.ip, c.dns))
            THEN <<Msg("Direct SSH connection", <<Endpoint(c.ip, c.dns)>>)>> ELSE << >>))

\* ------------------------------------------------------------------------
\* Jenkins password over ssh
\* ------------------------------------------------------------------------
\* How the ssh call can go: it cannot be launched, it is still running when
\* the timeout of 30 seconds expires, or it exits with rc and stdout.
SshOutcomes ==
  {[status |-> "oserror", rc |-> -1, stdout |-> Empty],
   [status |-> "timeout", rc |-> -1, stdout |-> Empty],
   [status |-> "exited", rc |-> 255, stdout |-> Empty],
   [status |-> "exited", rc |-> 0, stdout |-> <<"__NO_PASSWORD__", "\n">>],
   [status |-> "exited", rc |-> 0, stdout |-> <<"s3cret", "\n">>],
   [status |-> "exited", rc |-> 0, stdout |-> <<"\n">>]}

\* _print_jenkins_initial_admin_password: ssh runs with the driver's own
\* environment (no env= argument).  Only TimeoutExpired is caught.
print_jenkins_initial_admin_password(ep, o) ==
  LET run == Proc("ssh", "cat initialAdminPassword", ep, osEnviron, None, o.status, o.rc)
      checking == Say("[Jenkins] Checking for initial admin password...")
  IN  IF o.status = "oserror"
      THEN [procs |-> <<run>>, printed |-> <<checking>>, err |-> Raised("OSError", "ssh", -1)]
      ELSE IF o.status = "timeout"
      THEN [procs |-> <<run>>, err |-> NoErr,
            printed |-> <<checking, Say("Timeout while trying to fetch Jenkins password.")>>]
      ELSE IF o.rc # 0
      THEN [procs |-> <<run>>, err |-> NoErr,
            printed |-> <<checking, Say("Could not fetch Jenkins password (SSH error)")>>]
      ELSE IF Strip(o.stdout) = <<"__NO_PASSWORD__">>
      THEN [procs |-> <<run>>, err |-> NoErr,
            printed |-> <<checking, Say("Jenkins setup wizard is disabled (no initial admin password).")>>]
      ELSE IF Strip(o.stdout) # Empty
      THEN [procs |-> <<run>>, err |-> NoErr,
            printed |-> <<checking, Msg("JENKINS INITIAL ADMIN PASSWORD", Strip(o.stdout))>>]
      ELSE [procs |-> <<run>>, err |-> NoErr,
            printed |-> <<checking, Say("Jenkins password file empty or unreadable.")>>]

\* ------------------------------------------------------------------------
\* Menu loop (main, lines 728-759)
\* ------------------------------------------------------------------------
\* What the operator may type at the menu.
ChoiceInputs == {<<"1">>, <<" ", "2">>, <<"3">>, <<"4", " ">>, <<"5">>, <<"0">>, <<"9">>, Empty}

\* choice = input("> ").strip(), then the branch taken for it.
Choose(c, first) ==
  /\ pc = "menu"
  /\ \E raw \in ChoiceInputs : Strip(raw) = c
  /\ pc' = first
  /\ cmds' = << >>
  /\ err' = NoErr
  /\ instance_id' = None
  /\ endpoint' = None
  /\ UNCHANGED <<settings, paths, bash_path, tree, tfvarsFile, upserted, env_file, env_data, osEnviron, credFile, exit_code>>

ChooseProvision == Choose(<<"1">>, "provision") /\ out' = <<Say("[Provision] Writing tfvars and running setup.sh...")>>

ChooseRestart == Choose(<<"2">>, "restart") /\ out' = << >>

ChooseShow == Choose(<<"3">>, "show") /\ out' = << >>

ChooseStopStart == Choose(<<"4">>, "stop_start") /\ out' = << >>

ChooseDestroy == Choose(<<"5">>, "destroy") /\ out' = <<Say("[Destroy] Writing tfvars and running destroy.sh...")>>

ChooseExit ==
  /\ pc = "menu"
  /\ \E raw \in ChoiceInputs : Strip(raw) = <<"0">>
  /\ out' = <<Say("Exiting.")>>
  /\ cmds' = << >>
  /\ Return(0)
  /\ UNCHANGED <<settings, paths, bash_path, tree, tfvarsFile, upserted, env_file, env_data, osEnviron, credFile, err, instance_id, endpoint>>

ChooseInvalid ==
  /\ pc = "menu"
  /\ \E raw \in ChoiceInputs :
       Strip(raw) \notin {<<"1">>, <<"2">>, <<"3">>, <<"4">>, <<"5">>, <<"0">>}
  /\ out' = <<Say("Invalid selection.")>>
  /\ cmds' = << >>
  /\ UNCHANGED <<pc, settings, paths, bash_path, tree, tfvarsFile, upserted, env_file, env_data, osEnviron, credFile, err, instance_id,
                 endpoint, exit_code>>

\* ErrorPrompt asking with default_yes=False.
ErrorPromptDefaultNo ==
  /\ pc = "error_prompt"
  /\ \E answers \in AnswerRuns :
       /\ CompleteRun(answers, FALSE)
       /\ out' = Append(out, Msg("Return to menu?", answers[Len(answers)]))
       /\ IF prompt_yes_no(answers, FALSE) = "True"
          THEN pc' = "menu" /\ UNCHANGED exit_code
          ELSE Return(1)
  /\ UNCHANGED <<settings, paths, bash_path, tree, tfvarsFile, upserted, env_file, env_data, osEnviron, credFile, cmds, err,
                 instance_id, endpoint>>

\* except Exception: "Return to menu?" with default yes.  The answer typed
\* is kept with the question in the transcript.
ErrorPrompt ==
  /\ pc = "error_prompt"
  /\ \E answers \in AnswerRuns :
       /\ CompleteRun(answers, TRUE)
       /\ out' = Append(out, Msg("Return to menu?", answers[Len(answers)]))
       /\ IF prompt_yes_no(answers, TRUE) = "True"
          THEN pc' = "menu" /\ UNCHANGED exit_code
          ELSE Return(1)
  /\ UNCHANGED <<settings, paths, bash_path, tree, tfvarsFile, upserted, env_file, env_data, osEnviron, credFile, cmds, err,
                 instance_id, endpoint>>

\* ------------------------------------------------------------------------
\* Provision and Destroy
\* ------------------------------------------------------------------------
\* Preflight run with check=True: a non-zero exit raises.
PreflightChecked(at, next) ==
  /\ pc = at
  /\ \E rc \in PreflightCodes :
       /\ cmds' = Append(cmds, preflight_aws_identity(paths.infra_dir, rc))
       /\ IF rc # 0
          THEN Raise(out, Raised("CalledProcessError", "aws sts get-caller-identity", rc))
          ELSE pc' = next /\ UNCHANGED <<out, err>>
  /\ UNCHANGED <<settings, paths, bash_path, tree, tfvarsFile, upserted, env_file, env_data, osEnviron, credFile, instance_id,
                 endpoint, exit_code>>

\* _preflight_aws_identity of either flow.
Preflight(at, next) ==
  /\ pc = at
  /\ \E rc \in PreflightCodes : cmds' = Append(cmds, preflight_aws_identity(paths.infra_dir, rc))
  /\ pc' = next
  /\ UNCHANGED <<settings, paths, bash_path, tree, tfvarsFile, upserted, env_file, env_data, osEnviron, credFile, out, err, instance_id,
                 endpoint, exit_code>>

\* WriteCredentials forgetting the secret key once it is written.
WriteCredentialsClearingSecret(at, next) ==
  /\ pc = at
  /\ credFile' = write_credentials(credFile, settings)
  /\ settings' = [settings EXCEPT !["aws_secret_token"] = Empty]
  /\ out' = Append(out, Say("Wrote: credentials.auto.tfvars"))
  /\ pc' = next
  /\ UNCHANGED <<paths, bash_path, tree, tfvarsFile, upserted, env_file, env_data, osEnviron, cmds, err, instance_id, endpoint,
                 exit_code>>

\* _write_credentials of either flow.
WriteCredentials(at, next) ==
  /\ pc = at
  /\ credFile' = write_credentials(credFile, settings)
  /\ out' = Append(out, Say("Wrote: credentials.auto.tfvars"))
  /\ pc' = next
  /\ UNCHANGED <<settings, paths, bash_path, tree, tfvarsFile, upserted, env_file, env_data, osEnviron, cmds, err, instance_id, endpoint,
                 exit_code>>

ProvisionPreflight == Preflight("provision", "provision_write")

ProvisionWrite == WriteCredentials("provision_write", "provision_run")

\* extra_env of _provision.
provision_extra_env == [k \in {"ENABLE_AUTOSTART"} |-> <<"1">>]

\* _run_bash_script(SETUP_SH, auto_confirm=False)
ProvisionRun ==
  /\ pc = "provision_run"
  /\ \E rc \in ExitCodes :
       LET r == run_bash_script(SETUP_SH, paths.infra_dir, FALSE, provision_extra_env, rc)
           printed == Append(out, Say("Auto-start service (systemd) is ENABLED by default."))
       IN  /\ cmds' = cmds \o r.procs
           /\ IF r.err # NoErr
              THEN Raise(printed, r.err)
              ELSE /\ out' = printed
                   /\ pc' = "provision_print"
                   /\ UNCHANGED err
  /\ UNCHANGED <<settings, paths, bash_path, tree, tfvarsFile, upserted, env_file, env_data, osEnviron, credFile, instance_id, endpoint,
                 exit_code>>

\* _print_connection_info()
ProvisionPrint ==
  /\ pc = "provision_print"
  /\ \E o \in ConnOutcomes :
       LET c == get_connection_info(o)
       IN  /\ cmds' = cmds \o c.procs
           /\ out' = out \o print_connection_info(c)
  /\ pc' = "provision_endpoint"
  /\ UNCHANGED <<settings, paths, bash_path, tree, tfvarsFile, upserted, env_file, env_data, osEnviron, credFile, err, instance_id,
                 endpoint, exit_code>>

\* ip, dns = _get_connection_info(); endpoint = dns if dns else ip
ProvisionEndpoint ==
  /\ pc = "provision_endpoint"
  /\ \E o \in ConnOutcomes :
       LET c == get_connection_info(o)
           ep == Endpoint(c.ip, c.dns)
       IN  /\ cmds' = cmds \o c.procs
           /\ endpoint' = ep
           /\ IF ~Falsy(ep)
              THEN /\ out' = out \o c.printed
                   /\ pc' = "provision_jenkins"
              ELSE /\ out' = (out \o c.printed) \o <<Say("[Provision] Completed successfully.")>>
                   /\ pc' = "menu"
  /\ UNCHANGED <<settings, paths, bash_path, tree, tfvarsFile, upserted, env_file, env_data, osEnviron, credFile, err, instance_id,
                 exit_code>>

\* _print_jenkins_initial_admin_password(endpoint)
ProvisionJenkins ==
  /\ pc = "provision_jenkins"
  /\ \E o \in SshOutcomes :
       LET r == print_jenkins_initial_admin_password(endpoint, o)
       IN  /\ cmds' = cmds \o r.procs
           /\ IF r.err # NoErr
              THEN Raise(out \o r.printed, r.err)
              ELSE /\ out' = (out \o r.printed) \o <<Say("[Provision] Completed successfully.")>>
                   /\ pc' = "menu"
                   /\ UNCHANGED err
  /\ UNCHANGED <<settings, paths, bash_path, tree, tfvarsFile, upserted, env_file, env_data, osEnviron, credFile, instance_id, endpoint,
                 exit_code>>

DestroyPreflight == Preflight("destroy", "destroy_write")

DestroyWrite == WriteCredentials("destroy_write", "destroy_run")

\* os.environ.get("ENABLE_AUTOSTART", "0").strip()
enable_autostart(environ) ==
  Strip(IF "ENABLE_AUTOSTART" \in DOMAIN environ THEN environ["ENABLE_AUTOSTART"] ELSE <<"0">>)

\* extra_env of _destroy.
destroy_extra_env(environ) == [k \in {"ENABLE_AUTOSTART"} |-> enable_autostart(environ)]

\* _run_bash_script(DESTROY_SH, auto_confirm=True)
DestroyRun ==
  /\ pc = "destroy_run"
  /\ \E rc \in ExitCodes :
       LET r == run_bash_script(DESTROY_SH, paths.infra_dir, TRUE, destroy_extra_env(osEnviron), rc)
       IN  /\ cmds' = cmds \o r.procs
           /\ IF r.err # NoErr
              THEN Raise(out, r.err)
              ELSE /\ out' = Append(out, Say("[Destroy] Completed successfully."))
                   /\ pc' = "menu"
                   /\ UNCHANGED err
  /\ UNCHANGED <<settings, paths, bash_path, tree, tfvarsFile, upserted, env_file, env_data, osEnviron, credFile, instance_id, endpoint,
                 exit_code>>

\* ------------------------------------------------------------------------
\* EC2 operations
\* ------------------------------------------------------------------------
\* Exit codes of an aws call that was launched.  An operation that got an
\* instance id has launched aws, so its later calls are launched as well.
AwsCodes == {0, 255}

\* Lookup without the return on a miss.
LookupNoReturn(at, next, found) ==
  /\ pc = at
  /\ \E o \in LookupOutcomes :
       LET r == get_instance_id(o)
       IN  /\ cmds' = cmds \o r.procs
           /\ instance_id' = r.value
           /\ IF Falsy(r.value)
              THEN out' = (out \o r.printed) \o <<Say("No instance found for owner")>>
              ELSE out' = (out \o r.printed) \o found
           /\ pc' = next
  /\ UNCHANGED <<settings, paths, bash_path, tree, tfvarsFile, upserted, env_file, env_data, osEnviron, credFile, err, endpoint, exit_code>>

\* instance_id = _get_instance_id() and the "No instance found" return.
Lookup(at, next, found) ==
  /\ pc = at
  /\ \E o \in LookupOutcomes :
       LET r == get_instance_id(o)
       IN  /\ cmds' = cmds \o r.procs
           /\ instance_id' = r.value
           /\ IF Falsy(r.value)
              THEN /\ out' = (out \o r.printed) \o <<Say("No instance found for owner")>>
                   /\ pc' = "menu"
              ELSE /\ out' = (out \o r.printed) \o found
                   /\ pc' = next
  /\ UNCHANGED <<settings, paths, bash_path, tree, tfvarsFile, upserted, env_file, env_data, osEnviron, credFile, err, endpoint, exit_code>>

\* Confirm asking with default_yes=True.
ConfirmDefaultYes(at, next, cancelled) ==
  /\ pc = at
  /\ \E answers \in AnswerRuns :
       /\ CompleteRun(answers, TRUE)
       /\ IF prompt_yes_no(answers, TRUE) = "True"
          THEN /\ pc' = next
               /\ out' = Append(out, Msg("confirmed", answers[Len(answers)]))
          ELSE /\ pc' = "menu"
               /\ out' = Append(out, Say(cancelled))
  /\ UNCHANGED <<settings, paths, bash_path, tree, tfvarsFile, upserted, env_file, env_data, osEnviron, credFile, cmds, err, instance_id,
                 endpoint, exit_code>>

\* _prompt_yes_no(..., default_yes=False) and the "cancelled" return.
Confirm(at, next, cancelled) ==
  /\ pc = at
  /\ \E answers \in AnswerRuns :
       /\ CompleteRun(answers, FALSE)
       /\ IF prompt_yes_no(answers, FALSE) = "True"
          THEN /\ pc' = next
               /\ out' = Append(out, Msg("confirmed", answers[Len(answers)]))
          ELSE /\ pc' = "menu"
               /\ out' = Append(out, Say(cancelled))
  /\ UNCHANGED <<settings, paths, bash_path, tree, tfvarsFile, upserted, env_file, env_data, osEnviron, credFile, cmds, err, instance_id,
                 endpoint, exit_code>>

\* AwsStep issuing the call a second time when the first exits non-zero.
AwsStepRetryOnce(at, verb, failed, done, next) ==
  /\ pc = at
  /\ \E rc \in AwsCodes :
       /\ cmds' = Append(cmds, Aws(verb, instance_id, rc))
       /\ IF rc # 0
          THEN /\ out' = Append(out, Say(failed))
               /\ pc' = IF \E i \in 1..Len(cmds) : cmds[i].verb = verb THEN "menu" ELSE at
          ELSE /\ out' = Append(out, Say(done))
               /\ pc' = next
  /\ UNCHANGED <<settings, paths, bash_path, tree, tfvarsFile, upserted, env_file, env_data, osEnviron, credFile, err, instance_id,
                 endpoint, exit_code>>

\* AwsStep without the return after a failure.
AwsStepNoReturn(at, verb, failed, done, next) ==
  /\ pc = at
  /\ \E rc \in AwsCodes :
       /\ cmds' = Append(cmds, Aws(verb, instance_id, rc))
       /\ out' = Append(out, Say(IF rc # 0 THEN failed ELSE done))
       /\ pc' = next
  /\ UNCHANGED <<settings, paths, bash_path, tree, tfvarsFile, upserted, env_file, env_data, osEnviron, credFile, err, instance_id,
                 endpoint, exit_code>>

\* One aws call on the instance: a non-zero exit prints failed and returns
\* to the menu, a zero exit prints done and goes on.
AwsStep(at, verb, failed, done, next) ==
  /\ pc = at
  /\ \E rc \in AwsCodes :
       /\ cmds' = Append(cmds, Aws(verb, instance_id, rc))
       /\ IF rc # 0
          THEN /\ out' = Append(out, Say(failed))
               /\ pc' = "menu"
          ELSE /\ out' = Append(out, Say(done))
               /\ pc' = next
  /\ UNCHANGED <<settings, paths, bash_path, tree, tfvarsFile, upserted, env_file, env_data, osEnviron, credFile, err, instance_id,
                 endpoint, exit_code>>

RestartLookup == Lookup("restart", "restart_confirm", <<Say("Restarting EC2 instance")>>)

RestartConfirm == Confirm("restart_confirm", "restart_reboot", "Restart cancelled.")

RestartReboot ==
  AwsStep("restart_reboot", "reboot-instances", "Failed to restart instance",
          "restart initiated successfully", "menu")

\* _show_connection_info() from the menu.
Show ==
  /\ pc = "show"
  /\ \E o \in ConnOutcomes :
       LET c == get_connection_info(o)
       IN  /\ cmds' = cmds \o c.procs
           /\ out' = out \o show_connection_info(c)
  /\ pc' = "menu"
  /\ UNCHANGED <<settings, paths, bash_path, tree, tfvarsFile, upserted, env_file, env_data, osEnviron, credFile, err, instance_id,
                 endpoint, exit_code>>

StopStartLookup == Lookup("stop_start", "stop_start_confirm", <<Say("STOP + START EC2")>>)

\* The stop/start confirmation asked with default_yes=True.
StopStartConfirmDefaultYes ==
  ConfirmDefaultYes("stop_start_confirm", "stop", "Stop/Start cancelled.")

StopStartConfirm == Confirm("stop_start_confirm", "stop", "Stop/Start cancelled.")

Stop ==
  AwsStep("stop", "stop-instances", "Failed to stop instance",
          "Stop initiated. Waiting until instance is stopped...", "wait_stopped")

\* WaitStopped going on to the wait for running, without the start.
WaitStoppedSkipsStart ==
  AwsStep("wait_stopped", "wait instance-stopped", "Error while waiting for stop",
          "Starting EC2 instance", "wait_running")

WaitStopped ==
  AwsStep("wait_stopped", "wait instance-stopped", "Error while waiting for stop",
          "Starting EC2 instance", "start")

Start ==
  AwsStep("start", "start-instances", "Failed to start instance",
          "Start initiated. Waiting until instance is running...", "wait_running")

WaitRunning ==
  AwsStep("wait_running", "wait instance-running", "Error while waiting for running",
          "Instance is running again.", "stop_start_show")

\* _show_connection_info() at the end of _stop_start_ec2.
StopStartShow ==
  /\ pc = "stop_start_show"
  /\ \E o \in ConnOutcomes :
       LET c == get_connection_info(o)
       IN  /\ cmds' = cmds \o c.procs
           /\ out' = out \o show_connection_info(c)
  /\ pc' = "menu"
  /\ UNCHANGED <<settings, paths, bash_path, tree, tfvarsFile, upserted, env_file, env_data, osEnviron, credFile, err, instance_id,
                 endpoint, exit_code>>

\* ------------------------------------------------------------------------
\* Specification
\* ------------------------------------------------------------------------
Next ==
  \/ LoadEnv \/ Locate \/ ResolveBash
  \/ ChooseProvision \/ ChooseRestart \/ ChooseShow \/ ChooseStopStart \/ ChooseDestroy
  \/ ChooseExit \/ ChooseInvalid \/ ErrorPrompt
  \/ ProvisionPreflight \/ ProvisionWrite \/ ProvisionRun \/ ProvisionPrint
  \/ ProvisionEndpoint \/ ProvisionJenkins
  \/ DestroyPreflight \/ DestroyWrite \/ DestroyRun
  \/ RestartLookup \/ RestartConfirm \/ RestartReboot
  \/ Show
  \/ StopStartLookup \/ StopStartConfirm \/ Stop \/ WaitStopped \/ Start \/ WaitRunning
  \/ StopStartShow

Spec == Init /\ [][Next]_vars

\* ------------------------------------------------------------------------
\* Properties
\* ------------------------------------------------------------------------
Printed(m) == \E j \in 1..Len(out) : out[j].msg = m

LastPrinted(m) == out # << >> /\ out[Len(out)].msg = m

StopStartVerbs == <<"stop-instances", "wait instance-stopped", "start-instances",
                    "wait instance-running">>

FailureMessage(verb) ==
  CASE verb = "stop-instances" -> "Failed to stop instance"
    [] verb = "wait instance-stopped" -> "Error while waiting for stop"
    [] verb = "start-instances" -> "Failed to start instance"
    [] verb = "wait instance-running" -> "Error while waiting for running"

IsStopStartVerb(v) == \E k \in 1..4 : StopStartVerbs[k] = v

\* The stop/start commands of the current operation, in the order issued.
Lifecycle == SelectSeq(cmds, LAMBDA c : c.tool = "aws" /\ IsStopStartVerb(c.verb))

IsConnQuery(c) ==
  c.tool = "aws" /\ c.verb \in {"describe-instances PublicIpAddress", "describe-instances PublicDnsName"}

\* C1: in Stop-then-Start a step that exits non-zero (stop, wait for
\* stopped, start, wait for running) is the last command of the run: no
\* later command is issued, connection info is not resolved, the failure
\* message of that step is the last thing printed, and control is back at
\* the menu with no exception raised.
C1_FailedStepAborts ==
  \A i \in 1..Len(cmds) :
    (cmds[i].tool = "aws" /\ IsStopStartVerb(cmds[i].verb) /\ cmds[i].rc # 0)
      => /\ i = Len(cmds)
         /\ LastPrinted(FailureMessage(cmds[i].verb))
         /\ pc = "menu"
         /\ err = NoErr
         /\ exit_code = -1

\* The wait for stopped failed after stop was issued.
C1_Witness ==
  /\ Len(cmds) = 3
  /\ cmds[2].verb = "stop-instances" /\ cmds[2].rc = 0
  /\ cmds[3].verb = "wait instance-stopped" /\ cmds[3].rc # 0

\* The instance state the controller has established so far in this run.
TrackedState ==
  LET done == Len(SelectSeq(Lifecycle, LAMBDA c : c.rc = 0))
  IN  CASE done = 0 -> "unknown"
        [] done = 1 -> "stopping"
        [] done = 2 -> "stopped"
        [] done = 3 -> "starting"
        [] OTHER -> "running"

\* C2: the stop/start commands of a run are a prefix of stop, wait for
\* stopped, start, wait for running, each issued only after the one before
\* it exited zero; each step is taken in the tracked state the step before
\* established (start only when stopped); and connection info is resolved
\* in such a run only after the wait for running exited zero.
C2_FixedOrder ==
  /\ Len(Lifecycle) <= 4
  /\ \A i \in 1..Len(Lifecycle) :
       /\ Lifecycle[i].verb = StopStartVerbs[i]
       /\ i > 1 => Lifecycle[i - 1].rc = 0
  /\ pc = "stop" => TrackedState = "unknown"
  /\ pc = "wait_stopped" => TrackedState = "stopping"
  /\ pc = "start" => TrackedState = "stopped"
  /\ pc = "wait_running" => TrackedState = "starting"
  /\ pc = "stop_start_show" => TrackedState = "running"
  /\ (Lifecycle # << >> /\ \E i \in 1..Len(cmds) : IsConnQuery(cmds[i]))
       => TrackedState = "running"

\* A complete run: four commands exited zero and connection info was resolved.
C2_Witness ==
  /\ pc = "menu"
  /\ TrackedState = "running"
  /\ Printed("EC2 CONNECTION INFO")

IsScriptRun(c) == c.tool = "bash" /\ c.verb \in {SETUP_SH, DESTROY_SH}

\* C3: a provisioning or destruction script that exits non-zero is the last
\* process of the flow (no connection lookup, no ssh), the flow ends with a
\* RuntimeError carrying the script and its exit code that the menu loop
\* prints, no success message is printed, and credentials.auto.tfvars keeps
\* the content written earlier in the flow.
C3_ScriptFailureAborts ==
  \A i \in 1..Len(cmds) :
    (IsScriptRun(cmds[i]) /\ cmds[i].rc # 0)
      => /\ i = Len(cmds)
         /\ err = Raised("RuntimeError", cmds[i].verb, cmds[i].rc)
         /\ \E j \in 1..Len(out) :
              /\ out[j].msg = "ERROR"
              /\ \A k \in (j + 1)..Len(out) : out[k].msg = "Return to menu?"
         /\ pc \in {"error_prompt", "menu", "exited"}
         /\ ~Printed("[Provision] Completed successfully.")
         /\ ~Printed("[Destroy] Completed successfully.")
         /\ Printed("Wrote: credentials.auto.tfvars")
         /\ credFile = credentials_tfvars_content(settings)

\* setup.sh exited with code 2 and the error is at the menu loop.
C3_Witness ==
  /\ pc = "error_prompt"
  /\ cmds # << >>
  /\ cmds[Len(cmds)].verb = SETUP_SH
  /\ cmds[Len(cmds)].rc = 2
  /\ err.code = 2

IsPreflight(c) == c.tool = "bash" /\ c.verb = "aws sts get-caller-identity"

\* The flow called _run_bash_script: its bash process ran, or it raised
\* that the script was not found.
RunnerCalled ==
  \/ Len(cmds) >= 2 /\ IsScriptRun(cmds[2])
  \/ err.type = "FileNotFoundError"

\* C4: in Provision and Destroy the preflight is the first process of the
\* flow and its exit code changes nothing: whatever it is, the flow is next
\* at the overlay step with nothing else run or raised, then the overlay
\* file holds the regenerated content and the flow is at the script step,
\* and the flow leaves the script step only through the process runner.
C4_PreflightNonFatal ==
  \A i \in 1..Len(cmds) :
    IsPreflight(cmds[i])
      => /\ i = 1
         /\ pc \notin {"provision", "destroy"}
         /\ pc \in {"provision_write", "destroy_write"}
              => (Len(cmds) = 1 /\ err = NoErr /\ ~Printed("Wrote: credentials.auto.tfvars"))
         /\ pc \notin {"provision_write", "destroy_write"}
              => /\ Printed("Wrote: credentials.auto.tfvars")
                 /\ credFile = credentials_tfvars_content(settings)
                 /\ pc \in {"provision_run", "destroy_run"} => (Len(cmds) = 1 /\ err = NoErr)
                 /\ pc \notin {"provision_run", "destroy_run"} => RunnerCalled

\* The preflight exited non-zero and destroy.sh was run after it.
C4_Witness ==
  /\ Len(cmds) = 2
  /\ IsPreflight(cmds[1]) /\ cmds[1].rc # 0
  /\ cmds[2].verb = DESTROY_SH
  /\ Printed("Wrote: credentials.auto.tfvars")

IsSsh(c) == c.tool = "ssh"

\* C5: in Provision the ssh fetch is run exactly when the endpoint resolved
\* after the script is non-empty, on that endpoint, and whatever way the
\* fetch ends Provision prints its success message and is back at the menu
\* with no exception.
C5_SecretFetchNeverFails ==
  /\ pc = "provision_jenkins" => ~Falsy(endpoint)
  /\ \A i \in 1..Len(cmds) :
       IsSsh(cmds[i])
         => /\ i = Len(cmds)
            /\ ~Falsy(endpoint) /\ cmds[i].target = endpoint
            /\ pc = "menu"
            /\ err = NoErr
            /\ LastPrinted("[Provision] Completed successfully.")
  /\ (Printed("[Provision] Completed successfully.") /\ ~Falsy(endpoint))
       => \E i \in 1..Len(cmds) : IsSsh(cmds[i])

\* ("yes\n" * 200) as the lines fed to the script.
YesLines == [i \in 1..200 |-> "yes"]

\* C6 as stated: destroy.sh is given 200 "yes" lines on its input and
\* ENABLE_AUTOSTART exactly as found in os.environ ("0" when unset);
\* setup.sh is given no input.
C6_AutoConfirmExactValue ==
  \A i \in 1..Len(cmds) :
    /\ (cmds[i].tool = "bash" /\ cmds[i].verb = DESTROY_SH)
         => /\ cmds[i].stdin = YesLines
            /\ cmds[i].env["ENABLE_AUTOSTART"] =
                 (IF "ENABLE_AUTOSTART" \in DOMAIN osEnviron
                  THEN osEnviron["ENABLE_AUTOSTART"] ELSE <<"0">>)
    /\ (cmds[i].tool = "bash" /\ cmds[i].verb = SETUP_SH) => cmds[i].stdin = None

\* C6 amended: destroy.sh is given 200 "yes" lines on its input and
\* ENABLE_AUTOSTART as found in os.environ with surrounding whitespace
\* removed ("0" when unset); setup.sh is given no input.
C6_AutoConfirmStrippedValue ==
  \A i \in 1..Len(cmds) :
    /\ (cmds[i].tool = "bash" /\ cmds[i].verb = DESTROY_SH)
         => /\ cmds[i].stdin = YesLines
            /\ cmds[i].env["ENABLE_AUTOSTART"] =
                 Strip(IF "ENABLE_AUTOSTART" \in DOMAIN osEnviron
                       THEN osEnviron["ENABLE_AUTOSTART"] ELSE <<"0">>)
    /\ (cmds[i].tool = "bash" /\ cmds[i].verb = SETUP_SH) => cmds[i].stdin = None

\* destroy.sh was run with ENABLE_AUTOSTART set to " 1" in os.environ.
C6_Witness ==
  /\ \E i \in 1..Len(cmds) : cmds[i].tool = "bash" /\ cmds[i].verb = DESTROY_SH
  /\ "ENABLE_AUTOSTART" \in DOMAIN osEnviron
  /\ osEnviron["ENABLE_AUTOSTART"] = <<" ", "1">>

\* The overlay file was regenerated by the driver.
Regenerated == credFile \notin OldFiles

HasLine(file, key) == \E i \in 1..Len(file) : file[i][1] = key

FileKeys(file) == [i \in 1..Len(file) |-> file[i][1]]

\* The line of key holds value between double quotes.
QuotedLine(file, key, value) ==
  \E i \in 1..Len(file) : file[i] = <<key, " = ", <<"\"">> \o value \o <<"\"">> >>

MandatoryKeys == <<"aws_access_key", "aws_secret_key", "region", "account_id", "owner",
                   "devops_repo_url", "backend_repo_url", "frontend_repo_url">>

\* C7 as stated: the regenerated file has the line of the session token, of
\* each half of the git identity and of the DNS override exactly when that
\* setting is non-empty, and with no optional setting it has exactly the
\* mandatory keys.
C7_OptionalLinesIffSet ==
  Regenerated =>
    /\ HasLine(credFile, "aws_session_token") <=> settings.aws_session_token # Empty
    /\ HasLine(credFile, "ec2_dns") <=> settings.ec2_dns # Empty
    /\ HasLine(credFile, "git_username") <=> settings.git_username # Empty
    /\ HasLine(credFile, "git_pat") <=> settings.git_pat # Empty
    /\ (settings.aws_session_token = Empty /\ settings.ec2_dns = Empty
        /\ settings.git_username = Empty /\ settings.git_pat = Empty)
         => FileKeys(credFile) = MandatoryKeys

\* C7 amended: the regenerated file has the line of the session token and
\* of the DNS override exactly when that setting is non-empty, then with the
\* value in double quotes; the git_username and git_pat lines are always
\* written, with the value in double quotes even when it is empty; so with
\* no optional setting the file has exactly the mandatory keys followed by
\* git_username and git_pat, and no session token line.
C7_SessionAndDnsLinesIffSet ==
  Regenerated =>
    /\ HasLine(credFile, "aws_session_token") <=> settings.aws_session_token # Empty
    /\ HasLine(credFile, "aws_session_token")
         => QuotedLine(credFile, "aws_session_token", settings.aws_session_token)
    /\ HasLine(credFile, "ec2_dns") <=> settings.ec2_dns # Empty
    /\ HasLine(credFile, "ec2_dns") => QuotedLine(credFile, "ec2_dns", settings.ec2_dns)
    /\ QuotedLine(credFile, "git_username", settings.git_username)
    /\ QuotedLine(credFile, "git_pat", settings.git_pat)
    /\ (settings.aws_session_token = Empty /\ settings.ec2_dns = Empty)
         => FileKeys(credFile) = MandatoryKeys \o <<"git_username", "git_pat">>

\* The file was regenerated from settings with no optional value at all.
C7_Witness ==
  /\ Regenerated
  /\ settings.aws_session_token = Empty /\ settings.ec2_dns = Empty
  /\ settings.git_username = Empty /\ settings.git_pat = Empty

\* C8: once Provision or Destroy has passed its overlay step, the file is
\* exactly the serialization of the settings, whatever it held before and
\* whether the script that follows succeeds, fails or is not found; a
\* further regeneration leaves the same content.
C8_OverlayOverwritten ==
  /\ Printed("Wrote: credentials.auto.tfvars") => credFile = credentials_tfvars_content(settings)
  /\ Regenerated => credFile = credentials_tfvars_content(settings)
  /\ \A old \in OldFiles \cup {credFile} :
       /\ write_credentials(old, settings) = credentials_tfvars_content(settings)
       /\ write_credentials(write_credentials(old, settings), settings)
            = write_credentials(old, settings)

\* The overlay step was passed in a flow whose script then failed.
C8_Witness ==
  /\ pc = "error_prompt"
  /\ err.type = "RuntimeError"
  /\ Printed("Wrote: credentials.auto.tfvars")
  /\ Regenerated

\* e2 is os.environ with other values, or none, for the conflicting variables.
DiffersOnlyInConflicting(e1, e2) ==
  /\ (DOMAIN e1) \ ConflictingVars = (DOMAIN e2) \ ConflictingVars
  /\ \A k \in (DOMAIN e1) \ ConflictingVars : e1[k] = e2[k]

\* The environment the driver builds for process c when started in environ.
BuiltEnv(c, environ) ==
  IF c.tool = "bash" /\ c.verb = SETUP_SH
  THEN Update(clean_env_for_subprocess(settings, environ), provision_extra_env)
  ELSE IF c.tool = "bash" /\ c.verb = DESTROY_SH
  THEN Update(clean_env_for_subprocess(settings, environ), destroy_extra_env(environ))
  ELSE clean_env_for_subprocess(settings, environ)

\* C9: the environment built for a bash or aws subprocess is the one that
\* would have been built had the driver been started with any other values
\* of the five conflicting variables; it never has AWS_PROFILE or
\* AWS_DEFAULT_PROFILE, it has AWS_SESSION_TOKEN only when the settings
\* have a session token, and then with the settings' value.
C9_EnvIndependentOfCaller ==
  \A i \in 1..Len(cmds) :
    cmds[i].tool \in {"bash", "aws"}
      => /\ \A e2 \in OsEnvirons :
              DiffersOnlyInConflicting(osEnviron, e2) => cmds[i].env = BuiltEnv(cmds[i], e2)
         /\ "AWS_PROFILE" \notin DOMAIN cmds[i].env
         /\ "AWS_DEFAULT_PROFILE" \notin DOMAIN cmds[i].env
         /\ "AWS_SESSION_TOKEN" \in DOMAIN cmds[i].env
              => /\ settings.aws_session_token # Empty
                 /\ cmds[i].env["AWS_SESSION_TOKEN"] = settings.aws_session_token

\* A script was run by a driver started with all five conflicting variables
\* set, while the settings have no session token.
C9_Witness ==
  /\ \E i \in 1..Len(cmds) : IsScriptRun(cmds[i])
  /\ ConflictingVars \subseteq DOMAIN osEnviron
  /\ settings.aws_session_token = Empty

IsLookup(c) == c.tool = "aws" /\ c.verb = "describe-instances InstanceId"

\* A lookup outcome with no instance id in it.
IsMiss(o) ==
  \/ ~o.which
  \/ o.status = "oserror"
  \/ o.rc # 0
  \/ Strip(o.stdout) = Empty
  \/ Strip(o.stdout) = <<"None">>

\* C10: the lookup returns none, and raises nothing, when aws is missing,
\* cannot be launched, exits non-zero, prints nothing or prints None; and
\* after a miss Reboot and Stop-then-Start have run nothing but the lookup,
\* asked no confirmation, printed the warning last and are back at the menu
\* with no exception.
C10_LookupMiss ==
  /\ \A o \in LookupOutcomes : IsMiss(o) => get_instance_id(o).value = None
  /\ pc \in {"restart_confirm", "stop_start_confirm"} => ~Falsy(instance_id)
  /\ (cmds # << >> /\ IsLookup(cmds[1]) /\ (cmds[1].status = "oserror" \/ cmds[1].rc # 0))
       => Printed("No instance found for owner")
  /\ Printed("'aws' command not found on PATH.") => Printed("No instance found for owner")
  /\ Printed("No instance found for owner")
       => /\ LastPrinted("No instance found for owner")
          /\ instance_id = None
          /\ \A i \in 1..Len(cmds) : i = 1 /\ IsLookup(cmds[i])
          /\ ~Printed("confirmed")
          /\ ~Printed("Restart cancelled.") /\ ~Printed("Stop/Start cancelled.")
          /\ pc = "menu"
          /\ err = NoErr
          /\ exit_code = -1

\* The lookup ran, exited zero and found no instance.
C10_Witness ==
  /\ Printed("No instance found for owner")
  /\ Len(cmds) = 1 /\ IsLookup(cmds[1]) /\ cmds[1].rc = 0

IsReboot(c) == c.tool = "aws" /\ c.verb = "reboot-instances"

\* The answer that was accepted at the confirmation prompt is y or yes,
\* in any case and with any surrounding blanks.
AnsweredYes ==
  \E j \in 1..Len(out) :
    /\ out[j].msg = "confirmed"
    /\ Lower(Strip(out[j].arg)) \in {<<"y">>, <<"y", "e", "s">>}

\* C11: a reboot command is run only on the instance the lookup found and
\* after the operator answered y or yes at the prompt (an empty answer, n
\* or no run nothing); it is the only command after the lookup and the
\* last of the operation, whether it exits zero or not, and control is
\* back at the menu with no exception.
C11_RebootOnlyAfterYes ==
  /\ \A i \in 1..Len(cmds) :
       IsReboot(cmds[i])
         => /\ i = 2 /\ Len(cmds) = 2
            /\ IsLookup(cmds[1]) /\ cmds[1].rc = 0
            /\ ~Falsy(instance_id) /\ cmds[i].target = instance_id
            /\ AnsweredYes
            /\ pc = "menu"
            /\ err = NoErr
  /\ pc = "restart_reboot" => AnsweredYes
  /\ Printed("Restart cancelled.") => (Len(cmds) = 1 /\ pc = "menu")
  /\ \A a \in {Empty, <<" ", "n">>, <<"n", "o">>} : prompt_yes_no(<<a>>, FALSE) = "False"

\* The reboot command was run and exited non-zero.
C11_Witness ==
  /\ Len(cmds) = 2
  /\ IsReboot(cmds[2]) /\ cmds[2].rc # 0
  /\ Printed("Failed to restart instance")

StartupPcs == {"load_env", "locate", "resolve_bash"}

StartupErrors == <<"ERROR loading .env", "ERROR locating repo/infra", "ERROR locating Git Bash">>

ConfigLoaded == MissingKeys(settings, Mandatory) = << >>

\* The startup steps that have succeeded, counted from the state they leave.
StepsDone ==
  IF ~ConfigLoaded \/ pc = "load_env" THEN 0
  ELSE IF paths = NoPaths THEN 1
  ELSE IF bash_path = "" THEN 2
  ELSE 3

\* C12: the menu, and every operation behind it, is reached only with the
\* settings loaded, the paths resolved and the shell found, which happen in
\* that order; a failed startup step ends the process with exit code 1,
\* with the later steps not done and no command run.
C12_StartupFailFast ==
  /\ pc \notin StartupPcs \cup {"exited"} => StepsDone = 3
  /\ cmds # << >> => StepsDone = 3
  /\ pc = "locate" => StepsDone = 1 /\ out = <<Say("Loaded configuration")>>
  /\ pc = "resolve_bash"
       => StepsDone = 2 /\ out = <<Say("Loaded configuration"), Say("Detected paths")>>
  /\ paths # NoPaths => ConfigLoaded
  /\ bash_path # "" => paths # NoPaths
  /\ \A k \in 1..3 :
       Printed(StartupErrors[k])
         => /\ pc = "exited" /\ exit_code = 1
            /\ StepsDone = k - 1
            /\ Len(out) = k /\ out[k].msg = StartupErrors[k]
            /\ cmds = << >> /\ credFile \in OldFiles /\ err = NoErr
  /\ pc = "exited" /\ StepsDone < 3 => \E k \in 1..3 : Printed(StartupErrors[k])

\* The shell interpreter was not found after the two earlier steps succeeded.
C12_Witness ==
  /\ Printed("ERROR locating Git Bash")
  /\ pc = "exited"
  /\ paths # NoPaths

YesAnswers == {<<"y">>, <<"y", "e", "s">>}

NoAnswers == {<<"n">>, <<"n", "o">>}

\* The answer given to the return-to-menu question of the next state,
\* normalised as _prompt_yes_no reads it.
ReturnAnswer == Lower(Strip(out'[Len(out')].arg))

\* C13: an error raised by an operation always brings the return-to-menu
\* question; from it, yes or an empty answer leads to the menu and n or no
\* ends the process with exit code 1; an invalid selection stays at the
\* menu with no error and no question; exit code 0 is set only by the
\* exit choice.
C13_MenuLoopStep ==
  /\ (err' # NoErr /\ err = NoErr) => (pc' = "error_prompt" /\ LastPrinted("ERROR")')
  /\ (pc' = "error_prompt" /\ pc # "error_prompt") => (err' # NoErr /\ err = NoErr)
  /\ pc = "error_prompt"
       => /\ pc' \in {"menu", "exited"}
          /\ LastPrinted("Return to menu?")'
          /\ ReturnAnswer \in YesAnswers \cup NoAnswers \cup {Empty}
          /\ ReturnAnswer \in YesAnswers \cup {Empty} => (pc' = "menu" /\ exit_code' = exit_code)
          /\ ReturnAnswer \in NoAnswers => (pc' = "exited" /\ exit_code' = 1)
  /\ (pc = "menu" /\ out' = <<Say("Invalid selection.")>>)
       => (pc' = "menu" /\ err' = err /\ cmds' = << >> /\ exit_code' = exit_code)
  /\ (pc = "menu" /\ pc' = "menu") => out' = <<Say("Invalid selection.")>>
  /\ (exit_code' = 0 /\ exit_code # 0) => (pc = "menu" /\ out' = <<Say("Exiting.")>>)
  /\ (pc' = "exited" /\ pc \notin StartupPcs \cup {"exited"})
       => (pc = "menu" /\ exit_code' = 0) \/ (pc = "error_prompt" /\ exit_code' = 1)

C13_ErrorsReturnToMenuOrExit == [][C13_MenuLoopStep]_vars

\* The operator declined to return to the menu after a failed script.
C13_Witness ==
  /\ pc = "exited" /\ exit_code = 1
  /\ err # NoErr
  /\ LastPrinted("Return to menu?")
  /\ Lower(Strip(out[Len(out)].arg)) \in NoAnswers

\* The external actions: a provisioning or destruction script, the four
\* stop/start commands, the reboot and the ssh fetch.
IsExternalAction(c) ==
  \/ IsScriptRun(c)
  \/ c.tool = "aws" /\ IsStopStartVerb(c.verb)
  \/ IsReboot(c)
  \/ IsSsh(c)

\* C14: among the commands run for one menu selection no external action
\* appears twice, whatever its outcome; the commands of a selection start
\* from none at each selection.
C14_NoAutomaticRetry ==
  \A i, j \in 1..Len(cmds) :
    (i < j /\ IsExternalAction(cmds[i]))
      => ~(cmds[j].tool = cmds[i].tool /\ cmds[j].verb = cmds[i].verb)

\* start-instances exited non-zero and the operation is over.
C14_Witness ==
  /\ pc = "menu"
  /\ Len(Lifecycle) = 3
  /\ Lifecycle[3].verb = "start-instances" /\ Lifecycle[3].rc # 0

\* C20: once the startup steps are over, no step of any menu operation,
\* whether it succeeds, fails or is an invalid selection, changes a
\* setting, a resolved path or the shell path.
C20_SettingsAndPathsReadOnly ==
  [][pc \notin StartupPcs
       => (settings' = settings /\ paths' = paths /\ bash_path' = bash_path)]_vars

\* A destroy flow wrote the overlay from the settings and its script failed.
C20_Witness ==
  /\ pc = "menu"
  /\ err # NoErr
  /\ cmds # << >> /\ cmds[Len(cmds)].verb = DESTROY_SH
  /\ credFile = credentials_tfvars_content(settings)

\* ------------------------------------------------------------------------
\* The .env loader over families of files
\* ------------------------------------------------------------------------
MandatoryFields == {Mandatory[i][1] : i \in 1..Len(Mandatory)}

\* The key a mandatory field is reported under.
ReportedAs(f) == Mandatory[CHOOSE i \in 1..Len(Mandatory) : Mandatory[i][1] = f][2]

\* The value every file of the alias family gives a mandatory field.
FieldValue(f) == Strip(MandatoryData[ReportedAs(f)])

CanonicalSettings ==
  [n \in SettingNames |-> IF n \in MandatoryFields THEN FieldValue(n) ELSE Empty]

\* The ways a line can set key to the value v.
Syntaxes == 1..6

SyntaxLine(s, key, v) ==
  CASE s = 1 -> <<key, "=">> \o v
    [] s = 2 -> <<key, " ", "=", " ">> \o v \o <<" ", "#", " ", "c">>
    [] s = 3 -> <<key, "=", "\"", " ">> \o v \o <<" ", "\"">>
    [] s = 4 -> <<"EXPORT", " ", key, "=", "'">> \o v \o <<"'">>
    [] s = 5 -> <<key, ":", " ", "str", " ", "=", " ", "\"">> \o v \o <<"\"">>
    [] s = 6 -> <<"\t", key, ":", "str", "=">> \o v \o <<" ", "#", "c">>

Min(a, b) == IF a < b THEN a ELSE b

AliasAt(f, a) == Aliases(f)[Min(a, Len(Aliases(f)))]

\* A file setting every mandatory field once: field f by its alias a in
\* syntax s, the others by their first alias in the plain syntax, or by the
\* same choice when together.
AliasFile(f, a, s, together) ==
  << <<"#", "c">>, <<"junk">> >>
  \o [i \in 1..Len(Mandatory) |->
        LET g == Mandatory[i][1]
        IN  IF g = f \/ together
            THEN SyntaxLine(s, AliasAt(g, a), FieldValue(g))
            ELSE SyntaxLine(1, AliasAt(g, 1), FieldValue(g))]

AliasFiles ==
  {AliasFile(f, a, s, t) : f \in MandatoryFields, a \in 1..4, s \in Syntaxes, t \in BOOLEAN}

\* What the higher-priority alias of a pair may hold: a value, nothing, or
\* a quoted blank.
HighValues == {<<"h">>, Empty, <<"\"", " ", "\"">>}

\* A file setting field f through two of its aliases, the one of higher
\* priority (i < j) to hv and the other to l, written in either order.
PriorityFile(f, i, j, hv, high_first) ==
  LET hi == SyntaxLine(1, Aliases(f)[i], hv)
      lo == SyntaxLine(1, Aliases(f)[j], <<"l">>)
      others == SelectSeq(Mandatory, LAMBDA m : m[1] # f)
  IN  (IF high_first THEN <<hi, lo>> ELSE <<lo, hi>>)
      \o [k \in 1..Len(others) |-> SyntaxLine(1, others[k][2], FieldValue(others[k][1]))]

AliasPairs(f) == {p \in (1..Len(Aliases(f))) \X (1..Len(Aliases(f))) : p[1] < p[2]}

PriorityFiles ==
  UNION {{PriorityFile(f, p[1], p[2], hv, o) : p \in AliasPairs(f), hv \in HighValues, o \in BOOLEAN} :
           f \in MandatoryFields}

\* Most fields a file of the missing family leaves out (or all of them).
MaxMissing == 2

\* The ways a field can be missing from a file: no line for any alias, its
\* first alias set to nothing, every alias set to a quoted blank, its last
\* alias set to a comment only.
MissingWays == 1..4

MissingLines(f, way) ==
  CASE way = 1 -> << >>
    [] way = 2 -> <<SyntaxLine(1, Aliases(f)[1], Empty)>>
    [] way = 3 -> [i \in 1..Len(Aliases(f)) |-> SyntaxLine(5, Aliases(f)[i], <<" ">>)]
    [] way = 4 -> <<SyntaxLine(2, Aliases(f)[Len(Aliases(f))], Empty)>>

RECURSIVE Concat(_)
Concat(ss) == IF ss = << >> THEN << >> ELSE Head(ss) \o Concat(Tail(ss))

\* A file in which the fields of M are missing and every other mandatory
\* field is set through its second alias.
MissingFile(M, way) ==
  Concat([i \in 1..Len(Mandatory) |->
            LET g == Mandatory[i][1]
            IN  IF g \in M THEN MissingLines(g, way)
                ELSE <<SyntaxLine(1, AliasAt(g, 2), FieldValue(g))>>])

MissingSets == {M \in SUBSET MandatoryFields : Cardinality(M) \in 1..MaxMissing} \cup {MandatoryFields}

MissingFiles == {MissingFile(M, w) : M \in MissingSets, w \in MissingWays}

\* Longest value of the value family.
MaxValueLen == 4

ValueChars == {"a", "#", " "} \cup Quotes

Values == UNION {[1..n -> ValueChars] : n \in 0..MaxValueLen}

\* A file of the one line K=v.
ValueFile(v) == << <<"K", "=">> \o v >>

QuotedHash == <<"\"", "a", "#", "b", "\"">>

ValueFiles == {ValueFile(v) : v \in Values \cup {QuotedHash}}

LoaderFiles == AliasFiles \cup PriorityFiles \cup MissingFiles \cup ValueFiles \cup {NoEnvFile}

\* main() up to the end of the loading of .env, over the families of files.
InitLoader ==
  /\ pc = "load_env"
  /\ settings = InitialSettings
  /\ paths = NoPaths
  /\ bash_path = ""
  /\ tree = {}
  /\ tfvarsFile = NoTfvars
  /\ upserted = NoUpsert
  /\ env_file \in LoaderFiles
  /\ env_data = EmptyDict
  /\ osEnviron = EmptyDict
  /\ credFile = NoFile
  /\ cmds = << >>
  /\ out = << >>
  /\ err = NoErr
  /\ instance_id = None
  /\ endpoint = None
  /\ exit_code = -1

NextLoader == LoadEnv

SpecLoader == InitLoader /\ [][NextLoader]_vars

\* C15: a file that sets every mandatory field through one alias, in any
\* of the syntaxes, loads to the same settings whatever the alias and the
\* syntax; of two aliases of one field, the one earlier in the order of
\* pick supplies the value unless it is blank, whichever line comes first.
C15_AliasAndSyntaxIndependent ==
  pc # "load_env"
    => /\ env_file \in AliasFiles => (pc = "locate" /\ settings = CanonicalSettings)
       /\ \A f \in MandatoryFields : \A p \in AliasPairs(f) :
            \A hv \in HighValues, o \in BOOLEAN :
              env_file = PriorityFile(f, p[1], p[2], hv, o)
                => /\ pc = "locate"
                   /\ settings = [CanonicalSettings EXCEPT
                                    ![f] = IF hv = <<"h">> THEN <<"h">> ELSE <<"l">>]

\* The backend URL was set through its third alias in the annotated syntax.
C15_Witness ==
  /\ pc = "locate"
  /\ env_file = AliasFile("backend_repo_url", 3, 5, FALSE)
  /\ "API_REPO_URL" \in DOMAIN env_data
  /\ settings["backend_repo_url"] = <<"b">>

\* A mandatory field is missing from what was read: none of its aliases
\* has a value that is more than blanks.
FieldMissing(f) ==
  \A i \in 1..Len(Aliases(f)) :
    Aliases(f)[i] \notin DOMAIN env_data \/ Strip(env_data[Aliases(f)[i]]) = Empty

MissingNames == {ReportedAs(f) : f \in {g \in MandatoryFields : FieldMissing(g)}}

\* C16: when .env was read and lacks mandatory fields, loading ends the
\* process with one failure message that names each missing field once
\* and no other; a file written with the fields of M absent, empty or
\* blank under all their aliases has exactly the fields of M missing.
C16_AllMissingFieldsNamed ==
  (pc # "load_env" /\ env_file # NoEnvFile)
    => /\ \A M \in MissingSets, w \in MissingWays :
            env_file = MissingFile(M, w) => MissingNames = {ReportedAs(f) : f \in M}
       /\ MissingNames = {} => ~Printed("ERROR loading .env")
       /\ MissingNames # {}
            => /\ pc = "exited" /\ exit_code = 1
               /\ Len(out) = 1 /\ out[1].msg = "ERROR loading .env"
               /\ {out[1].arg[i] : i \in 1..Len(out[1].arg)} = MissingNames
               /\ Len(out[1].arg) = Cardinality(MissingNames)

\* Two fields, each set to a quoted blank under all its aliases, are named.
C16_Witness ==
  /\ env_file = MissingFile({"aws_access_token", "owner"}, 3)
  /\ pc = "exited"
  /\ out = <<Msg("ERROR loading .env", <<"AWS_ACCESS_TOKEN", "OWNER">>)>>

\* Inline-comment removal followed by unquoting, as applied to each value.
Clean(v) == unquote(strip_inline_comment_preserving_quotes(v))

Has(v, c) == \E i \in 1..Len(v) : v[i] = c

\* The value written after K= in a file of the value family.
WrittenValue == Drop(env_file[1], 2)

\* C17 as stated: every value the loader has stripped is left unchanged by
\* stripping it again, and the quoted value "a#b" is read as a#b.
C17_StrippingIdempotent ==
  (pc # "load_env" /\ env_file \in ValueFiles)
    => /\ Clean(env_data["K"]) = env_data["K"]
       /\ WrittenValue = QuotedHash => env_data["K"] = <<"a", "#", "b">>

\* C17, amended: stripping the stripped value again changes nothing when
\* the value written holds no quote character; a value written between
\* two quotes of a kind that does not occur inside is read as exactly the
\* text between them, a '#' in it kept, so "a#b" is read as a#b.
C17_StrippingIdempotentUnquoted ==
  (pc # "load_env" /\ env_file \in ValueFiles)
    => LET v == WrittenValue
           inner == SubSeq(v, 2, Len(v) - 1)
       IN  /\ (\A q \in Quotes : ~Has(v, q)) => Clean(env_data["K"]) = env_data["K"]
           /\ \A q \in Quotes :
                (Len(v) >= 2 /\ v[1] = q /\ v[Len(v)] = q /\ ~Has(inner, q))
                  => env_data["K"] = inner
           /\ v = QuotedHash => env_data["K"] = <<"a", "#", "b">>

\* The quoted value "a#b" was read, and stripping the result again cuts it.
C17_Witness ==
  /\ pc # "load_env"
  /\ env_file = ValueFile(QuotedHash)
  /\ env_data["K"] = <<"a", "#", "b">>
  /\ Clean(env_data["K"]) = <<"a">>

\* ------------------------------------------------------------------------
\* Repository detection over families of trees
\* ------------------------------------------------------------------------
\* The script files a tree of the family may hold.
TreeFiles ==
  {<<"a", "b", "setup.sh">>, <<"longname", "setup.sh">>, <<"infra", "setup.sh">>,
   <<"stage", "setup.sh">>, <<"node_modules", "setup.sh">>,
   <<"a", "destroy.sh">>, <<"longname", "x", "destroy.sh">>, <<"infra", "destroy.sh">>,
   <<"stage", "destroy.sh">>,
   <<"a", "b", "c", "d", "destroy.sh">>, <<".GIT", "destroy.sh">>}

TopologyTrees == SUBSET TreeFiles

OneEnvFile == AliasFile("owner", 1, 1, FALSE)

\* main() after .env was loaded, over the family of trees.
InitTopology ==
  /\ pc = "locate"
  /\ env_file = OneEnvFile
  /\ env_data = load_env_file(OneEnvFile)
  /\ settings = apply_env(load_env_file(OneEnvFile)).settings
  /\ paths = NoPaths
  /\ bash_path = ""
  /\ tree \in TopologyTrees
  /\ tfvarsFile = NoTfvars
  /\ upserted = NoUpsert
  /\ osEnviron = EmptyDict
  /\ credFile = NoFile
  /\ cmds = << >>
  /\ out = <<Say("Loaded configuration")>>
  /\ err = NoErr
  /\ instance_id = None
  /\ endpoint = None
  /\ exit_code = -1

NextTopology == Locate

SpecTopology == InitTopology /\ [][NextTopology]_vars

SetupMatches == Candidates(tree, SETUP_SH)

DestroyMatches == Candidates(tree, DESTROY_SH)

CommonDirs == {Parent(p) : p \in SetupMatches} \cap {Parent(p) : p \in DestroyMatches}

\* C18: resolution fails when a script has no match outside the excluded
\* directories; a result lies in a directory holding both scripts when
\* there is one; otherwise its setup.sh has the fewest path segments of
\* all matches and its destroy.sh is a match at the least distance from
\* the directory of that setup.sh.
C18_TopologyResolution ==
  pc # "locate"
    => /\ (SetupMatches = {} \/ DestroyMatches = {})
            => (paths = NoPaths /\ Printed("ERROR locating repo/infra") /\ exit_code = 1)
       /\ (paths # NoPaths /\ CommonDirs # {})
            => /\ paths.infra_dir \in CommonDirs
               /\ paths.setup_sh = paths.infra_dir \o <<SETUP_SH>>
               /\ paths.destroy_sh = paths.infra_dir \o <<DESTROY_SH>>
       /\ (paths # NoPaths /\ CommonDirs = {})
            => /\ paths.setup_sh \in SetupMatches
               /\ \A e \in SetupMatches : Len(paths.setup_sh) <= Len(e)
               /\ paths.infra_dir = Parent(paths.setup_sh)
               /\ paths.destroy_sh \in DestroyMatches
               /\ \A y \in DestroyMatches :
                    path_distance(paths.infra_dir, Parent(paths.destroy_sh))
                      <= path_distance(paths.infra_dir, Parent(y))

\* ------------------------------------------------------------------------
\* The upsert on terraform.tfvars (Overlay Writer, spec.md 4.3)
\* ------------------------------------------------------------------------
UpsertKeys == {"region", "owner", "extra"}

UpsertValues == {<<"a">>, <<"b", " ", "#", "c">>, Empty}

\* A file with a comment, a quoted value, a longer key, and a bare token
\* followed by a comment.
SomeTfvars ==
  << <<"#", " ", "c">>,
     <<"region", " ", "=", " ", "\"", "o", "l", "d", "\"">>,
     <<"region_2", "=", "x">>,
     <<"owner", "=", "me", " ", "#", "n">> >>

\* What terraform.tfvars may hold before the first upsert: nothing, no
\* line, the lines above with either line ending, a key on two lines, a
\* quote left open.
TfvarsFiles ==
  {NoTfvars, << >>, SomeTfvars,
   [i \in 1..Len(SomeTfvars) |-> SomeTfvars[i] \o <<"\r">>],
   << <<"region", "=", "\"", "x", "\"">>, <<"region", "=", "y">> >>,
   << <<"region", "=", "\"", "a">> >>}

\* The driver at the menu, terraform.tfvars about to be upserted.
InitUpsert ==
  /\ pc = "upsert"
  /\ env_file = OneEnvFile
  /\ env_data = load_env_file(OneEnvFile)
  /\ settings = apply_env(load_env_file(OneEnvFile)).settings
  /\ tree = {<<"infra", "setup.sh">>, <<"infra", "destroy.sh">>}
  /\ paths \in {build_repo_paths(1, r) : r \in find_infra_dir(tree)}
  /\ bash_path = "DEFAULT_GIT_BASH"
  /\ tfvarsFile \in TfvarsFiles
  /\ upserted = NoUpsert
  /\ osEnviron = EmptyDict
  /\ credFile = NoFile
  /\ cmds = << >>
  /\ out = << >>
  /\ err = NoErr
  /\ instance_id = None
  /\ endpoint = None
  /\ exit_code = -1

\* One upsert of a key and a value on terraform.tfvars.
Upsert ==
  /\ pc = "upsert"
  /\ \E k \in UpsertKeys, v \in UpsertValues :
       /\ tfvarsFile' = upsert(tfvarsFile, k, v)
       /\ upserted' = [key |-> k, value |-> v]
  /\ UNCHANGED <<pc, settings, paths, bash_path, tree, env_file, env_data, osEnviron, credFile,
                 cmds, out, err, instance_id, endpoint, exit_code>>

NextUpsert == Upsert

SpecUpsert == InitUpsert /\ [][NextUpsert]_vars

\* The lines of the current file that are the line of key k.
KeyLines(k) == {i \in 1..Len(tfvarsFile) : matches_key(tfvarsFile[i], k)}

C19_UpsertStep ==
  upserted # NoUpsert
    => /\ upserted' = upserted => tfvarsFile' = tfvarsFile
       /\ KeyLines(upserted'.key) = {}
            => tfvarsFile' = Append(tfvarsFile, tfvar_line(upserted'.key, upserted'.value))
       /\ KeyLines(upserted'.key) # {}
            => /\ Len(tfvarsFile') = Len(tfvarsFile)
               /\ \E h \in KeyLines(upserted'.key) :
                    /\ tfvarsFile'[h] = tfvar_line(upserted'.key, upserted'.value)
                    /\ \A i \in 1..Len(tfvarsFile) : i # h => tfvarsFile'[i] = tfvarsFile[i]

C21_ResolvedScriptsRun ==
  /\ \A i \in 1..Len(cmds) :
       IsScriptRun(cmds[i])
         => /\ cmds[i].verb = SETUP_SH => cmds[i].target \o <<SETUP_SH>> = paths.setup_sh
            /\ cmds[i].verb = DESTROY_SH => cmds[i].target \o <<DESTROY_SH>> = paths.destroy_sh
  /\ ~(err.type = "FileNotFoundError" /\ err.script \in {SETUP_SH, DESTROY_SH})

\* What a run resolved, as _find_infra_dir returns it.
Resolved == [infra_dir |-> paths.infra_dir, setup_sh |-> paths.setup_sh,
             destroy_sh |-> paths.destroy_sh]

\* C22: the directory and the scripts a run resolved are the ones every
\* run resolves for the same tree, also when several common directories,
\* or several setup.sh matches, have path strings of one length.
C22_ResolutionDeterministic ==
  (pc # "locate" /\ paths # NoPaths) => \A r \in find_infra_dir(tree) : r = Resolved

\* The injected layer: the keys the driver sets for every subprocess, with
\* their values.
InjectedPairs ==
  {<<"TF_IN_AUTOMATION", <<"1">>>>,
   <<"TF_VAR_devops_repo_url", settings.devops_repo_url>>,
   <<"TF_VAR_backend_repo_url", settings.backend_repo_url>>,
   <<"TF_VAR_frontend_repo_url", settings.frontend_repo_url>>,
   <<"TF_VAR_git_username", settings.git_username>>,
   <<"TF_VAR_git_pat", settings.git_pat>>,
   <<"AWS_ACCESS_KEY_ID", settings.aws_access_token>>,
   <<"AWS_SECRET_ACCESS_KEY", settings.aws_secret_token>>,
   <<"AWS_DEFAULT_REGION", settings.aws_region>>,
   <<"SMEE_URL", settings.smee_url>>, <<"SMEE_TARGET", settings.smee_target>>,
   <<"SMEE_BACKEND", settings.smee_backend>>, <<"SMEE_FRONTEND", settings.smee_frontend>>,
   <<"SMEE_DEVOPS", settings.smee_devops>>}
  \cup (IF settings.ec2_dns # Empty THEN {<<"TF_VAR_ec2_dns", settings.ec2_dns>>} ELSE {})
  \cup (IF settings.aws_session_token # Empty
        THEN {<<"AWS_SESSION_TOKEN", settings.aws_session_token>>} ELSE {})

\* The operation-specific layer of process c.
OverrideLayer(c) ==
  IF c.tool = "bash" /\ c.verb = SETUP_SH THEN provision_extra_env
  ELSE IF c.tool = "bash" /\ c.verb = DESTROY_SH THEN destroy_extra_env(osEnviron)
  ELSE EmptyDict

\* C23: in the environment of a bash or aws subprocess a key of the
\* operation's own layer has that layer's value, any other injected key
\* has the injected value, and any other inherited key that is not one of
\* the removed credentials variables has the caller's value; the script
\* of Provision sees ENABLE_AUTOSTART=1 and TF_IN_AUTOMATION=1.
C23_EnvLayering ==
  \A i \in 1..Len(cmds) :
    cmds[i].tool \in {"bash", "aws"}
      => LET env == cmds[i].env
             ov  == OverrideLayer(cmds[i])
         IN  /\ \A k \in DOMAIN ov : k \in DOMAIN env /\ env[k] = ov[k]
             /\ \A p \in InjectedPairs :
                  p[1] \notin DOMAIN ov => (p[1] \in DOMAIN env /\ env[p[1]] = p[2])
             /\ \A k \in DOMAIN osEnviron :
                  (k \notin DOMAIN ov /\ k \notin {p[1] : p \in InjectedPairs}
                     /\ k \notin ConflictingVars)
                    => (k \in DOMAIN env /\ env[k] = osEnviron[k])
             /\ cmds[i].verb = SETUP_SH
                  => (env["ENABLE_AUTOSTART"] = <<"1">> /\ env["TF_IN_AUTOMATION"] = <<"1">>)

\* setup.sh was run by a driver whose caller had other values for
\* ENABLE_AUTOSTART and TF_IN_AUTOMATION.
C23_Witness ==
  /\ \E i \in 1..Len(cmds) : cmds[i].tool = "bash" /\ cmds[i].verb = SETUP_SH
  /\ "ENABLE_AUTOSTART" \in DOMAIN osEnviron /\ osEnviron["ENABLE_AUTOSTART"] = <<" ", "1">>
  /\ osEnviron["TF_IN_AUTOMATION"] = <<"0">>

\* C24: the endpoint the ssh fetch of Provision goes to is the endpoint
\* shown in the connection info of that run, and no ssh fetch is made
\* after the run showed that no IP/DNS could be fetched.
C24_FetchUsesDisplayedEndpoint ==
  \A i \in 1..Len(cmds) :
    IsSsh(cmds[i])
      => /\ \E j \in 1..Len(out) :
              out[j].msg = "SSH Connection Command" /\ out[j].arg = <<cmds[i].target>>
         /\ ~Printed("Could not fetch IP/DNS. Is the instance running?")

StopStartPcs == {"stop", "wait_stopped", "start", "wait_running"}

\* C25: Stop-then-Start issues stop only after the lookup found an
\* instance and the operator answered y or yes at a prompt whose default
\* is no; after a decline or an empty answer no stop, wait or start
\* command is issued; and every stop, wait and start command of a run
\* targets the one instance id the lookup at the start of the run found.
C25_StopStartOnlyAfterYes ==
  /\ (Lifecycle # << >> \/ pc \in StopStartPcs)
       => /\ IsLookup(cmds[1]) /\ cmds[1].rc = 0
          /\ \A i \in 2..Len(cmds) : ~IsLookup(cmds[i])
          /\ ~Falsy(instance_id)
          /\ AnsweredYes
          /\ \A i \in 1..Len(Lifecycle) : Lifecycle[i].target = instance_id
  /\ Printed("Stop/Start cancelled.")
       => (Len(cmds) = 1 /\ Lifecycle = << >> /\ pc = "menu")
  /\ \A a \in {Empty, <<" ">>, <<"n">>, <<"N", "o">>} : prompt_yes_no(<<a>>, FALSE) = "False"

\* All four commands were issued on the instance found, after a yes, and
\* the wait for running exited non-zero.
C25_Witness ==
  /\ Len(Lifecycle) = 4
  /\ Lifecycle[1].target = instance_id /\ Lifecycle[4].target = instance_id
  /\ Lifecycle[4].rc # 0
  /\ AnsweredYes

====
